---- MODULE Spec2Model ----
(***************************************************************************)
(* Reductron: Petri nets read from .net lines (ptio/ptnet.py), saturated   *)
(* sequences and their SMT-LIB encodings, and the obligation composer      *)
(* (reductron.py).                                                         *)
(*                                                                         *)
(* Python dicts are functions whose DOMAIN is the set of keys; lists are   *)
(* sequences, except connected_places, which the code only ever asks for   *)
(* membership (`pl not in ...`, `set(...)`) and which is kept as a set.    *)
(* An SMT-LIB string is kept as the structure the string denotes (its      *)
(* conjuncts and disjuncts), and is given its SMT meaning by the *Sat      *)
(* operators.                                                              *)
(***************************************************************************)
EXTENDS Integers, Sequences, FiniteSets, TLC

\* ------------------------------------------------------------------ bounds
\* `tr` / `pl` lines read from one .net file
MaxLines == 2
\* arcs on each side of the `->` of one `tr` line
MaxArcs == 1
\* largest arc weight written in a line
MaxWeight == 2
\* longest transition list handed to Sequence(...)
MaxSeqLen == 2
\* tokens per place in the markings the encodings are evaluated on
MaxTok == 3
\* largest value of a saturation variable
MaxFirings == 2

PlaceIds == {"a", "b"}
TransIds == {"t1", "t2"}
\* labels written after the `:` of a `tr` line
Labels == {"tau", "1", "0", "00", "x"}

Weights == 1..MaxWeight
Arc == [place : PlaceIds, weight : Weights]
ArcLists == UNION {[1..n -> Arc] : n \in 0..MaxArcs}

\* --------------------------------------------------------------- dict helpers
EmptyMap == [p \in {} |-> 0]

\* dict.get(p, default)
Get(map, p, default) == IF p \in DOMAIN map THEN map[p] ELSE default

\* map[p] = v
Put(map, p, v) == [q \in (DOMAIN map) \cup {p} |-> IF q = p THEN v ELSE map[q]]

Max(x, y) == IF x >= y THEN x ELSE y

Abs(x) == IF x < 0 THEN 0 - x ELSE x

VARIABLES
    pc,                  \* where the run is: "parse", "fatal", "built", "T", "tau", "sigma"
    nlines,              \* lines read so far
    places,              \* PetriNet.places (keys)
    transitions,         \* PetriNet.transitions (keys)
    label,               \* Transition.label
    pre,                 \* Transition.pre
    post,                \* Transition.post
    delta,               \* Transition.delta
    connected_places,    \* Transition.connected_places
    silent_transitions,  \* PetriNet.silent_transitions
    labeled_transitions, \* PetriNet.labeled_transitions
    sequence,            \* Sequence.sequence
    hurdle,              \* Sequence.hurdle
    sdelta,              \* Sequence.delta
    smt,                 \* the SMT-LIB text last rendered
    cin,                 \* what the composer is given: the two sides, E, the tau* lists
    cpc,                 \* where a composer call is: "idle", "asked", "returned", "raised", "aborted"
    cfun,                \* the composer function called and its on_reduced flag
    csent,               \* the formulas handed to Z3.check_sat so far
    cverdict,            \* the verdicts returned so far
    zpc,                 \* where the run of main is: "main" between obligations, "reset",
                         \* "assert", "check-sat", "flush", "readline" inside check_sat,
                         \* "exit" once the process has ended
    solver,              \* Z3.solver, the z3 process and its pipe
    aborted,             \* Z3.aborted
    zcalls,              \* the formulas check_sat was called with, in order
    zret,                \* what the obligations returned (and main printed), in order
    zend,                \* how the process ended: "" (running), "abort", "exception", "return"
    fpc,                 \* where tau_star is: "call", "ndrio", "xsltproc", "fast",
                         \* "returned", "exit"
    fspawned,            \* the subprocesses started, in order
    fexit,               \* returncode of each subprocess (None before it has exited)
    ftemp,               \* temporary files created
    fenv,                \* whether os.environ['FAST_DEFAULT_ENGINE'] was set
    var_index,           \* tau_star's var_index
    region_index,        \* tau_star's region_index
    fout,                \* the lines fast wrote on stderr
    fsequences,          \* the list tau_star returns
    fend,                \* "" (running), "returned", "failure"
    formula,             \* the tokens of the constraint text given to parse_formula
    F,                   \* Presburger.F once parsed, or the exception raised
    member,              \* the summands of a linear term given to _member_constructor
    term,                \* what _member_constructor returned for it
    mpc,                 \* where main is: "off", "tau1", "tau2", "solver", "obligation", "ended"
    mpos,                \* the obligation main is at (1..12), 0 before
    mout,                \* the verdict lines main printed
    mend                 \* how main ended: "", "return", "fatal", "exception", "abort"

netVars == <<places, transitions, label, pre, post, delta, connected_places,
             silent_transitions, labeled_transitions>>
seqVars == <<sequence, hurdle, sdelta>>
compVars == <<cin, cpc, cfun, csent, cverdict>>
z3Vars == <<zpc, solver, aborted, zcalls, zret, zend>>
fastVars == <<fpc, fspawned, fexit, ftemp, fenv, var_index, region_index, fout,
              fsequences, fend>>
pfVars == <<formula, F, member, term>>
mainVars == <<mpc, mpos, mout, mend>>
toolVars == <<z3Vars, fastVars, pfVars, mainVars>>
vars == <<pc, nlines, netVars, seqVars, smt, compVars, toolVars>>

\* ------------------------------------------------------------- PetriNet parser

\* PetriNet.parse_arc: arcs[pl] = weight, for each arc of one side in order
RECURSIVE parse_arcs(_, _)
parse_arcs(arcs, list) ==
    IF list = <<>> THEN arcs
    ELSE parse_arcs(Put(arcs, Head(list).place, Head(list).weight), Tail(list))

ArcPlaces(list) == {list[i].place : i \in 1..Len(list)}

\* Transition.normalize: the delta map after the loop, from pre, post and the
\* delta map before it
normalize(pre_t, post_t, delta_t) ==
    LET ps == (DOMAIN pre_t) \cup (DOMAIN post_t)
        d(p) == Get(post_t, p, 0) - Get(pre_t, p, 0)
        set == {p \in ps : d(p) # 0}
    IN [p \in (DOMAIN delta_t) \cup set |-> IF p \in set THEN d(p) ELSE delta_t[p]]

\* the label test of parse_transition: isdigit() on the labels of Labels
isdigit(lab) == lab \in {"0", "1", "00"}

label_accepted(lab) == ~((lab # "tau" /\ ~isdigit(lab)) \/ lab = "0")

\* no z3 process, no run of main
Z3Off ==
    /\ zpc = "off"
    /\ solver = [spawned |-> 0, alive |-> FALSE, killed |-> FALSE,
                 stdin |-> <<>>, flushed |-> 0, lines |-> <<>>, broken |-> FALSE]
    /\ aborted = FALSE
    /\ zcalls = <<>>
    /\ zret = <<>>
    /\ zend = ""

\* the index given for `None`
NoIndex == 0 - 1

Stages == {"ndrio", "xsltproc", "fast"}

\* tau_star not called
FastOff ==
    /\ fpc = "off"
    /\ fspawned = <<>>
    /\ fexit = [st \in Stages |-> NoIndex]
    /\ ftemp = 0
    /\ fenv = FALSE
    /\ var_index = NoIndex
    /\ region_index = NoIndex
    /\ fout = <<>>
    /\ fsequences = <<>>
    /\ fend = ""

\* no constraint read
ParserOff ==
    /\ formula = <<>>
    /\ F = <<>>
    /\ member = <<>>
    /\ term = <<>>

\* no run of main
MainOff ==
    /\ mpc = "off"
    /\ mpos = 0
    /\ mout = <<>>
    /\ mend = ""

ToolsOff == Z3Off /\ FastOff /\ ParserOff /\ MainOff

\* the composer at rest, given nothing
ComposerOff ==
    /\ cin = <<>>
    /\ cpc = "off"
    /\ cfun = <<>>
    /\ csent = <<>>
    /\ cverdict = <<>>

\* the net before the first line is read
EmptyNet ==
    /\ nlines = 0
    /\ places = {}
    /\ transitions = {}
    /\ label = [t \in TransIds |-> ""]
    /\ pre = [t \in TransIds |-> EmptyMap]
    /\ post = [t \in TransIds |-> EmptyMap]
    /\ delta = [t \in TransIds |-> EmptyMap]
    /\ connected_places = [t \in TransIds |-> {}]
    /\ silent_transitions = <<>>
    /\ labeled_transitions = <<>>
    /\ sequence = <<>>
    /\ hurdle = EmptyMap
    /\ sdelta = EmptyMap
    /\ smt = <<>>

Init ==
    /\ pc = "parse"
    /\ EmptyNet
    /\ ComposerOff
    /\ ToolsOff

\* PetriNet.parse_transition on the line `tr id : lab inputs -> outputs`
\* (colon = FALSE: the token after the id is not `:`)
parse_transition(id, colon, lab, inputs, outputs) ==
    /\ pc = "parse"
    /\ nlines < MaxLines
    /\ nlines' = nlines + 1
    /\ IF ~colon \/ ~label_accepted(lab)
       THEN /\ pc' = "fatal"
            /\ UNCHANGED <<netVars, seqVars, smt, compVars, toolVars>>
       ELSE LET new == id \notin transitions
                pre_t == parse_arcs(pre[id], inputs)
                post_t == parse_arcs(post[id], outputs)
            IN /\ pc' = pc
               /\ transitions' = transitions \cup {id}
               /\ label' = IF new THEN [label EXCEPT ![id] = lab] ELSE label
               /\ silent_transitions' =
                     IF new /\ lab = "tau" THEN Append(silent_transitions, id)
                     ELSE silent_transitions
               /\ labeled_transitions' =
                     IF new /\ lab # "tau" THEN Append(labeled_transitions, id)
                     ELSE labeled_transitions
               /\ places' = places \cup ArcPlaces(inputs) \cup ArcPlaces(outputs)
               /\ pre' = [pre EXCEPT ![id] = pre_t]
               /\ post' = [post EXCEPT ![id] = post_t]
               /\ connected_places' =
                     [connected_places EXCEPT
                        ![id] = @ \cup ArcPlaces(inputs) \cup ArcPlaces(outputs)]
               /\ delta' = [delta EXCEPT ![id] = normalize(pre_t, post_t, delta[id])]
               /\ UNCHANGED <<seqVars, smt, compVars, toolVars>>

\* PetriNet.parse_place on the line `pl id`
parse_place(id) ==
    /\ pc = "parse"
    /\ nlines < MaxLines
    /\ nlines' = nlines + 1
    /\ places' = places \cup {id}
    /\ UNCHANGED <<pc, transitions, label, pre, post, delta, connected_places,
                   silent_transitions, labeled_transitions, seqVars, smt, compVars, toolVars>>

ParseTr ==
    \E id \in TransIds, colon \in BOOLEAN, lab \in Labels,
       inputs \in ArcLists, outputs \in ArcLists :
        parse_transition(id, colon, lab, inputs, outputs)

ParsePl == \E id \in PlaceIds : parse_place(id)

\* ------------------------------------------------------------------ Sequence

\* compute_vectors_step with the displacement overwritten by the delta of the
\* transition instead of added to
compute_vectors_step_overwrite(t, hd) ==
    LET conn == connected_places[t]
    IN [hurdle |-> [p \in (DOMAIN hd.hurdle) \cup conn |->
                      IF p \in conn
                      THEN Max(Get(pre[t], p, 0),
                               Get(hd.hurdle, p, 0) - Get(delta[t], p, 0))
                      ELSE hd.hurdle[p]],
        delta  |-> [p \in (DOMAIN hd.delta) \cup conn |->
                      IF p \in conn
                      THEN Get(delta[t], p, 0)
                      ELSE hd.delta[p]]]

\* one pass of the outer loop of Sequence.compute_vectors: the maps after the
\* inner loop over set(tr.connected_places)
compute_vectors_step(t, hd) ==
    LET conn == connected_places[t]
    IN [hurdle |-> [p \in (DOMAIN hd.hurdle) \cup conn |->
                      IF p \in conn
                      THEN Max(Get(pre[t], p, 0),
                               Get(hd.hurdle, p, 0) - Get(delta[t], p, 0))
                      ELSE hd.hurdle[p]],
        delta  |-> [p \in (DOMAIN hd.delta) \cup conn |->
                      IF p \in conn
                      THEN Get(hd.delta, p, 0) + Get(delta[t], p, 0)
                      ELSE hd.delta[p]]]

\* the loop `for tr in reversed(self.sequence)` with i transitions left
RECURSIVE compute_vectors_loop(_, _, _)

\* compute_vectors_loop without `reversed`: the list walked first to last
RECURSIVE compute_vectors_loop_forward(_, _, _)
compute_vectors_loop_forward(seq, i, hd) ==
    IF i = 0 THEN hd
    ELSE compute_vectors_loop_forward(seq, i - 1,
             compute_vectors_step(seq[Len(seq) - i + 1], hd))

compute_vectors_loop(seq, i, hd) ==
    IF i = 0 THEN hd
    ELSE compute_vectors_loop(seq, i - 1, compute_vectors_step(seq[i], hd))

\* Sequence.compute_vectors from the empty maps of Sequence.__init__
compute_vectors(seq) ==
    compute_vectors_loop(seq, Len(seq), [hurdle |-> EmptyMap, delta |-> EmptyMap])

TransitionLists == UNION {[1..n -> transitions] : n \in 0..MaxSeqLen}

\* Sequence.__init__ on a list of transitions of the net that was read
Sequence_init(seq) ==
    /\ pc = "parse"
    /\ pc' = "built"
    /\ sequence' = seq
    /\ hurdle' = compute_vectors(seq).hurdle
    /\ sdelta' = compute_vectors(seq).delta
    /\ UNCHANGED <<nlines, netVars, smt, compVars, toolVars>>

NewSequence == \E seq \in TransitionLists : Sequence_init(seq)

\* ------------------------------------------------------- SMT-LIB renderings

\* int(label) as the digits of the label read in an SMT-LIB numeral
label_int(lab) == IF lab = "1" THEN 1 ELSE 0

\* the term `(- p@k n)` / `(+ p@k n)` that Transition.smtlib writes for a
\* weight of the delta map
update_term(weight) == [op |-> IF weight < 0 THEN "-" ELSE "+", n |-> Abs(weight)]

\* Transition.smtlib(k, k_prime, l): one `(and ...)`.  l is TRUE when a label
\* variable is passed.  src tells which transition the conjunction was
\* written for.
Transition_smtlib(t, l) ==
    [src   |-> t,
     lab   |-> l /\ label[t] # "tau",
     labv  |-> IF l /\ label[t] # "tau" THEN label_int(label[t]) ELSE 0,
     ge    |-> pre[t],
     upd   |-> [p \in DOMAIN delta[t] |-> update_term(delta[t][p])],
     eq    |-> {p \in places : p \notin connected_places[t]}]

\* the stuttering `(and (= l 0) (= p@k' p@k) ...)` of both relations
stutter(l) ==
    [src |-> "stutter", lab |-> l, labv |-> 0, ge |-> EmptyMap,
     upd |-> EmptyMap, eq |-> places]

\* the literals `true` and `(= l 0)` returned for a net without places
no_places(l) ==
    [src |-> "true", lab |-> l, labv |-> 0, ge |-> EmptyMap,
     upd |-> EmptyMap, eq |-> {}]

\* PetriNet.smtlib_transition_relation(k, k_prime, l, eq): the disjuncts of
\* the `(or ...)`
smtlib_transition_relation(l, eq) ==
    IF places = {} THEN <<no_places(l)>>
    ELSE [i \in 1..Len(labeled_transitions) |->
            Transition_smtlib(labeled_transitions[i], l)]
         \o (IF eq THEN <<stutter(l)>> ELSE <<>>)

\* smtlib_silent_transition_relation with the stuttering written only when
\* the net has no silent transition
smtlib_silent_transition_relation_no_stutter ==
    IF places = {} THEN <<no_places(FALSE)>>
    ELSE IF silent_transitions = <<>> THEN <<stutter(FALSE)>>
    ELSE [i \in 1..Len(silent_transitions) |->
            Transition_smtlib(silent_transitions[i], FALSE)]

\* PetriNet.smtlib_silent_transition_relation(k, k_prime): the disjuncts of
\* the `(or ...)`, or the single conjunction when there is no `(or`
smtlib_silent_transition_relation ==
    IF places = {} THEN <<no_places(FALSE)>>
    ELSE [i \in 1..Len(silent_transitions) |->
            Transition_smtlib(silent_transitions[i], FALSE)]
         \o <<stutter(FALSE)>>

\* hurdle_term that never adds the `(* (- s 1) |d|)` part
hurdle_term_unscaled(h, d) ==
    [base |-> h, scaled |-> FALSE, mult |-> Abs(d)]

\* one conjunct of hurdle_k in Sequence.smtlib, for a place with hurdle h and
\* displacement d: `(>= p@k h)` or `(>= p@k (+ h (* (- s 1) |d|)))`
hurdle_term(h, d) ==
    [base |-> h, scaled |-> ~(d >= 0), mult |-> Abs(d)]

\* update_k_term with `+` written whatever the sign of d
update_k_term_plus(d) ==
    IF d # 0 THEN [op |-> "+", mult |-> Abs(d)]
    ELSE [op |-> "=", mult |-> 0]

\* one conjunct of update_k in Sequence.smtlib, for a place with displacement
\* d: `(= p@k+1 (- p@k (* s |d|)))`, `(+ ...)`, or `(= p@k+1 p@k)`
update_k_term(d) ==
    IF d # 0 THEN [op |-> IF d < 0 THEN "-" ELSE "+", mult |-> Abs(d)]
    ELSE [op |-> "=", mult |-> 0]

\* Sequence.smtlib(k):
\* (exists (s) (and (>= s 0) (or (and (= s 0) update_0)
\*                               (and (> s 0) (and hurdle_k update_k)))))
Sequence_smtlib ==
    IF sequence = <<>> THEN [empty |-> TRUE, update_0 |-> {}, hurdle_k |-> EmptyMap,
                             update_k |-> EmptyMap]
    ELSE [empty    |-> FALSE,
          update_0 |-> places,
          hurdle_k |-> [p \in {q \in DOMAIN hurdle : hurdle[q] # 0} |->
                          hurdle_term(hurdle[p], sdelta[p])],
          update_k |-> [p \in places |-> update_k_term(Get(sdelta, p, 0))]]

\* the composer asks the net for its labeled relation
RenderT ==
    /\ pc = "parse"
    /\ pc' = "T"
    /\ smt' = smtlib_transition_relation(TRUE, TRUE)
    /\ UNCHANGED <<nlines, netVars, seqVars, compVars, toolVars>>

\* the composer asks the net for its silent relation
RenderTau ==
    /\ pc = "parse"
    /\ pc' = "tau"
    /\ smt' = smtlib_silent_transition_relation
    /\ UNCHANGED <<nlines, netVars, seqVars, compVars, toolVars>>

\* the composer asks a sequence for its encoding
RenderSigma ==
    /\ pc = "built"
    /\ pc' = "sigma"
    /\ smt' = Sequence_smtlib
    /\ UNCHANGED <<nlines, netVars, seqVars, compVars, toolVars>>

\* ------------------------------------------------- meaning of the renderings

Markings == [places -> 0..MaxTok]

\* a conjunction written by Transition.smtlib / the stuttering, at markings
\* m (index k), mp (index k') and label value lv
ConjSat(c, m, mp, lv) ==
    /\ c.lab => lv = c.labv
    /\ \A p \in DOMAIN c.ge : m[p] >= c.ge[p]
    /\ \A p \in DOMAIN c.upd :
          mp[p] = IF c.upd[p].op = "-" THEN m[p] - c.upd[p].n ELSE m[p] + c.upd[p].n
    /\ \A p \in c.eq : mp[p] = m[p]

\* a relation (list of disjuncts) at m, mp, lv
RelSat(rel, m, mp, lv) == \E i \in 1..Len(rel) : ConjSat(rel[i], m, mp, lv)

\* hurdle_k of a rendered sequence at marking m and saturation value s
HurdleSat(f, m, s) ==
    \A p \in DOMAIN f.hurdle_k :
        m[p] >= IF f.hurdle_k[p].scaled
                THEN f.hurdle_k[p].base + (s - 1) * f.hurdle_k[p].mult
                ELSE f.hurdle_k[p].base

\* update_k of a rendered sequence
UpdateSat(f, m, mp, s) ==
    \A p \in DOMAIN f.update_k :
        mp[p] = CASE f.update_k[p].op = "-" -> m[p] - s * f.update_k[p].mult
                  [] f.update_k[p].op = "+" -> m[p] + s * f.update_k[p].mult
                  [] OTHER -> m[p]

\* the body of the `exists` of a rendered non-empty sequence at value s
SigmaSat(f, m, mp, s) ==
    /\ s >= 0
    /\ \/ s = 0 /\ \A p \in f.update_0 : mp[p] = m[p]
       \/ s > 0 /\ HurdleSat(f, m, s) /\ UpdateSat(f, m, mp, s)

Next == ParseTr \/ ParsePl \/ NewSequence \/ RenderT \/ RenderTau \/ RenderSigma

Spec == Init /\ [][Next]_vars

\* ======================================================= obligation composer
\* A formula is kept as its syntax tree: op is the head symbol, at the time
\* indices an atom is rendered with, vars the variables a quantifier (or its
\* non-negativity conjunction) names, args the sub-formulas.

\* saturated sequences returned by tau_star for one net
MaxSequences == 2

Node(op, at, vs, args) == [op |-> op, at |-> at, vars |-> vs, args |-> args]

\* a variable name, `name@idx` or `name`
Var(name, idx) == [name |-> name, idx |-> idx]

\* reductron.smt_and
smt_and(constraints) ==
    IF constraints = <<>> THEN Node("true", <<>>, <<>>, <<>>)
    ELSE IF Len(constraints) > 1 THEN Node("and", <<>>, <<>>, constraints)
    ELSE constraints[1]

\* reductron.smt_imply
smt_imply(left, right) == Node("=>", <<>>, <<>>, <<left, right>>)

\* reductron.smt_equiv
smt_equiv(left, right) == smt_and(<<smt_imply(left, right), smt_imply(right, left)>>)

\* smt_and(['(>= var 0)' for var in declaration]): one node naming the
\* variables it bounds
smt_non_negative(declaration) == Node(">=0", <<>>, declaration, <<>>)

\* smt_exists without the non-negativity conjunct
smt_exists_unrestricted(declaration, constraint) ==
    IF declaration = <<>> THEN constraint
    ELSE Node("exists", <<>>, declaration, <<constraint>>)

\* reductron.smt_forall
smt_forall(declaration, constraint) ==
    IF declaration = <<>> THEN constraint
    ELSE Node("forall", <<>>, declaration,
              <<smt_imply(smt_non_negative(declaration), constraint)>>)

\* reductron.smt_exists
smt_exists(declaration, constraint) ==
    IF declaration = <<>> THEN constraint
    ELSE Node("exists", <<>>, declaration,
              <<smt_and(<<smt_non_negative(declaration), constraint>>)>>)

\* Presburger.smtlib(k): the constraint with its places written at index k
Presburger_smtlib(c, k) == Node(c.id, <<k>>, <<>>, <<>>)

\* a call c.smtlib_declare(...) with nargs arguments after self.  The method
\* is `def smtlib_declare(self)`: any argument makes the call raise
\* TypeError; without one it returns self.additional_vars.
Presburger_smtlib_declare(c, nargs) ==
    [raised |-> nargs # 0,
     vars   |-> [i \in 1..Len(c.additional_vars) |-> Var(c.additional_vars[i], NoIndex)]]

\* Polyhedron.smtlib(k1, k2, common): E with the initial places at k1, the
\* reduced places at k2, the common variables at common
Polyhedron_smtlib(k1, k2, common) == Node("E", <<k1, k2, common>>, <<>>, <<>>)

\* the names of a list at an index
Indexed(names, k) == [i \in 1..Len(names) |-> Var(names[i], k)]

\* Polyhedron.smtlib_declare(k1, k2, common, exclude_initial, exclude_reduced)
Polyhedron_smtlib_declare(e, k1, k2, common, exclude_initial, exclude_reduced) ==
    (IF exclude_initial THEN <<>> ELSE Indexed(e.initial, k1))
    \o (IF exclude_reduced THEN <<>> ELSE Indexed(e.reduced, k2))
    \o Indexed(e.common, common)

\* Sequence.smtlib(k) of the i-th sequence of a list (saturation variable
\* tau<i>): `(exists ((tau<i> Int)) (and (>= tau<i> 0) <the firings>))`
Sequence_atom(i, k) ==
    Node("exists", <<>>, <<Var("tau", i)>>,
         <<Node("and", <<>>, <<>>,
                <<smt_non_negative(<<Var("tau", i)>>),
                  Node("sigma", <<i, k, k + 1>>, <<>>, <<>>)>>)>>)

\* PetriNet.smtlib_transition_relation(k, k_prime, l) of net n
Transition_relation_atom(n, k, k_prime) == Node(n, <<k, k_prime>>, <<Var("l", NoIndex)>>, <<>>)

\* reductron.smt_tau_star
smt_tau_star(e, k, k_prime, on_reduced) ==
    LET k1 == IF ~on_reduced THEN k ELSE NoIndex
        k2 == IF ~on_reduced THEN NoIndex ELSE k
        k1_prime == IF ~on_reduced THEN k_prime ELSE NoIndex
        k2_prime == IF ~on_reduced THEN NoIndex ELSE k_prime
    IN smt_exists(
           Polyhedron_smtlib_declare(e, NoIndex, NoIndex, NoIndex, ~on_reduced, on_reduced),
           smt_and(<<Polyhedron_smtlib(k1, k2, k), Polyhedron_smtlib(k1_prime, k2_prime, k_prime)>>))

\* the while loop of smt_hat_t: the first index from k on that is neither k
\* nor k_prime
RECURSIVE k_intermediate_from(_, _, _)
k_intermediate_from(i, k, k_prime) ==
    IF i = k \/ i = k_prime THEN k_intermediate_from(i + 1, k, k_prime) ELSE i

\* reductron.smt_hat_t: raised when its call of c1.smtlib_declare raises
smt_hat_t(n1, c1, e, k, k_prime, on_reduced) ==
    LET k_intermediate == k_intermediate_from(k, k, k_prime)
        d == Presburger_smtlib_declare(c1, 1)
    IN [raised |-> d.raised,
        f |-> smt_exists(d.vars,
                  smt_and(<<smt_tau_star(e, k, k_intermediate, on_reduced),
                            Transition_relation_atom(n1, k_intermediate, k_prime)>>))]

\* reductron.check_silent_reachability_set for a tau* list of k_max
\* sequences: returned (True, no query) when the list is empty
check_silent_reachability_set(c1, c2, e, k_max, on_reduced) ==
    LET k1 == IF ~on_reduced THEN k_max ELSE NoIndex
        k2 == IF ~on_reduced THEN NoIndex ELSE k_max
        f6 == smt_and([i \in 1..k_max |-> Sequence_atom(i - 1, i - 1)])
        f5 == smt_and(<<Polyhedron_smtlib(0, k2, k_max), Polyhedron_smtlib(k1, k2, k_max),
                        Presburger_smtlib(c2, NoIndex)>>)
        d4 == [k \in 1..(k_max - 1) |-> Presburger_smtlib_declare(c1, 1)]
        f4 == smt_exists(<<>>, f6)
        f3 == smt_exists(Polyhedron_smtlib_declare(e, k1, k2, k_max, ~on_reduced, on_reduced), f5)
        f2 == smt_equiv(f3, f4)
        f1 == smt_imply(Presburger_smtlib(c1, 0), f2)
        d0 == Presburger_smtlib_declare(c1, 1)
        dk == Presburger_smtlib_declare(c1, 1)
    IN [returned |-> k_max = 0,
        raised   |-> k_max # 0 /\ ((\E k \in DOMAIN d4 : d4[k].raised) \/ d0.raised \/ dk.raised),
        f        |-> smt_forall(d0.vars \o dk.vars, f1)]

\* reductron.core_1
core_1(c1, c2, e, on_reduced) ==
    LET f4 == smt_and(<<Polyhedron_smtlib(NoIndex, NoIndex, NoIndex),
                        Presburger_smtlib(c2, NoIndex)>>)
        f3 == smt_exists(
                  Polyhedron_smtlib_declare(e, NoIndex, NoIndex, NoIndex, ~on_reduced, on_reduced),
                  f4)
        f2 == Presburger_smtlib(c1, NoIndex)
        f1 == smt_imply(f2, f3)
        d == Presburger_smtlib_declare(c1, 0)
    IN [returned |-> FALSE, raised |-> d.raised, f |-> smt_forall(d.vars, f1)]

\* reductron.core_2 (l, k, k_prime, k_hiatus = "l", 0, 1, 2)
core_2(n1, c1, e, on_reduced) ==
    LET h4 == smt_hat_t(n1, c1, e, 0, 2, on_reduced)
        f4 == smt_and(<<h4.f, Presburger_smtlib(c1, 2), smt_tau_star(e, 2, 1, on_reduced)>>)
        d3 == Presburger_smtlib_declare(c1, 1)
        f3 == smt_exists(d3.vars, f4)
        h2 == smt_hat_t(n1, c1, e, 0, 1, on_reduced)
        f2 == smt_and(<<Presburger_smtlib(c1, 0), h2.f>>)
        f1 == smt_imply(f2, f3)
        d0 == Presburger_smtlib_declare(c1, 1)
        d1 == Presburger_smtlib_declare(c1, 1)
    IN [returned |-> FALSE,
        raised   |-> h4.raised \/ d3.raised \/ h2.raised \/ d0.raised \/ d1.raised,
        f        |-> smt_forall(d0.vars \o d1.vars \o <<Var("l", NoIndex)>>, f1)]

\* reductron.core_3 (l, k, k_prime = "l", 0, 1); n2, c2 are the other side
core_3(n1, c1, e, n2, c2, on_reduced) ==
    LET h3 == smt_hat_t(n2, c2, e, 0, 1, ~on_reduced)
        f3 == smt_and(<<Presburger_smtlib(c2, 1), Polyhedron_smtlib(1, 1, 1), h3.f>>)
        f2 == smt_exists(Polyhedron_smtlib_declare(e, 1, 1, 1, ~on_reduced, on_reduced), f3)
        h1 == smt_hat_t(n1, c1, e, 0, 1, on_reduced)
        f1 == smt_and(<<Presburger_smtlib(c1, 0), Presburger_smtlib(c2, 0),
                        Polyhedron_smtlib(0, 0, 0), h1.f>>)
        d == Presburger_smtlib_declare(c1, 1)
    IN [returned |-> FALSE,
        raised   |-> h3.raised \/ h1.raised \/ d.raised,
        f        |-> smt_forall(Polyhedron_smtlib_declare(e, 0, 0, 0, FALSE, FALSE)
                                \o d.vars \o <<Var("l", NoIndex)>>,
                                smt_imply(f1, f2))]

\* reductron.core_4 (k, k_prime = 0, 1)
core_4(c1, c2, e, on_reduced) ==
    LET k1_prime == IF ~on_reduced THEN 1 ELSE 0
        k2_prime == IF ~on_reduced THEN 0 ELSE 1
        f3 == Polyhedron_smtlib(k1_prime, k2_prime, 1)
        f2 == smt_and(<<Presburger_smtlib(c1, 0), Presburger_smtlib(c2, 0),
                        Polyhedron_smtlib(0, 0, 0), smt_tau_star(e, 0, 1, on_reduced)>>)
        f1 == smt_imply(f2, f3)
        d == Presburger_smtlib_declare(c1, 1)
    IN [returned |-> FALSE,
        raised   |-> d.raised,
        f        |-> smt_forall(Polyhedron_smtlib_declare(e, 0, 0, 0, FALSE, FALSE) \o d.vars, f1)]

\* reductron.core_5 (k, k_prime = 0, 1)
core_5(c1, c2, e, on_reduced) ==
    LET k1_prime == IF ~on_reduced THEN 1 ELSE 0
        k2_prime == IF ~on_reduced THEN 0 ELSE 1
        f3 == smt_tau_star(e, 0, 1, on_reduced)
        f2 == smt_and(<<Presburger_smtlib(c1, 0), Presburger_smtlib(c2, 0),
                        Polyhedron_smtlib(0, 0, 0), Polyhedron_smtlib(k1_prime, k2_prime, 1)>>)
        f1 == smt_imply(f2, f3)
    IN [returned |-> FALSE,
        raised   |-> FALSE,
        f        |-> smt_forall(Polyhedron_smtlib_declare(e, 0, 0, 0, FALSE, FALSE)
                                \o Polyhedron_smtlib_declare(e, k1_prime, k2_prime, 1,
                                                             on_reduced, ~on_reduced),
                                f1)]

\* --------------------------------------------------------- what main hands over
NameLists(names) == UNION {[1..n -> names] : n \in 0..Cardinality(names)}

\* place lists without repetition (dict keys)
KeyLists(names) == {l \in NameLists(names) : \A i, j \in 1..Len(l) : i # j => l[i] # l[j]}

\* the nets, constraints, E and tau* lists parsed by main
Inputs ==
    [places1 : KeyLists({"p", "r"}), places2 : KeyLists({"q"}),
     additional1 : {<<>>, <<"x">>}, additional2 : {<<>>, <<"y">>},
     common : {<<>>, <<"z">>},
     tau1 : 0..MaxSequences, tau2 : 0..MaxSequences]

\* the side that plays N1 / C1 in a call, and the other side
Side1(on_reduced) ==
    IF ~on_reduced
    THEN [net |-> "T1", id |-> "C1", places |-> cin.places1,
          additional_vars |-> cin.additional1, tau |-> cin.tau1]
    ELSE [net |-> "T2", id |-> "C2", places |-> cin.places2,
          additional_vars |-> cin.additional2, tau |-> cin.tau2]

Side2(on_reduced) == Side1(~on_reduced)

\* E over the places of both nets and its common variables
Polyhedron == [initial |-> cin.places1, reduced |-> cin.places2, common |-> cin.common]

Functions == {"check_silent_reachability_set", "core_1", "core_2", "core_3", "core_4",
              "core_5"}

\* the call main makes of composer function fn in direction on_reduced
Called(fn, on_reduced) ==
    CASE fn = "check_silent_reachability_set" ->
            check_silent_reachability_set(Side1(on_reduced), Side2(on_reduced), Polyhedron,
                                          Side1(on_reduced).tau, on_reduced)
      [] fn = "core_1" ->
            core_1(Side1(on_reduced), Side2(on_reduced), Polyhedron, on_reduced)
      [] fn = "core_2" ->
            core_2(Side1(on_reduced).net, Side1(on_reduced), Polyhedron, on_reduced)
      [] fn = "core_3" ->
            core_3(Side1(on_reduced).net, Side1(on_reduced), Polyhedron,
                   Side2(on_reduced).net, Side2(on_reduced), on_reduced)
      [] fn = "core_4" ->
            core_4(Side1(on_reduced), Side2(on_reduced), Polyhedron, on_reduced)
      [] fn = "core_5" ->
            core_5(Side1(on_reduced), Side2(on_reduced), Polyhedron, on_reduced)

InitComposer ==
    /\ pc = "off"
    /\ EmptyNet
    /\ cin \in Inputs
    /\ cpc = "idle"
    /\ cfun = <<>>
    /\ csent = <<>>
    /\ cverdict = <<>>
    /\ ToolsOff

\* a composer function is called on the objects main builds: it returns at
\* once, dies of an uncaught exception before anything is written, or hands
\* its formula to Z3.check_sat
Call(fn, on_reduced) ==
    /\ cpc = "idle"
    /\ cfun' = <<fn, on_reduced>>
    /\ LET r == Called(fn, on_reduced)
       IN IF r.returned
          THEN /\ cpc' = "returned"
               /\ cverdict' = Append(cverdict, TRUE)
               /\ csent' = csent
          ELSE IF r.raised
          THEN /\ cpc' = "raised"
               /\ UNCHANGED <<csent, cverdict>>
          ELSE /\ cpc' = "asked"
               /\ csent' = Append(csent, r.f)
               /\ cverdict' = cverdict
    /\ UNCHANGED <<pc, nlines, netVars, seqVars, smt, cin, toolVars>>

CallComposer == \E fn \in Functions, on_reduced \in BOOLEAN : Call(fn, on_reduced)

\* Z3.check_sat reads the answer line: True on `sat`, False on `unsat`,
\* abort on anything else
Answer(line) ==
    /\ cpc = "asked"
    /\ IF line \in {"sat", "unsat"}
       THEN /\ cpc' = "returned"
            /\ cverdict' = Append(cverdict, line = "sat")
       ELSE /\ cpc' = "aborted"
            /\ cverdict' = cverdict
    /\ UNCHANGED <<pc, nlines, netVars, seqVars, smt, cin, cfun, csent, toolVars>>

SolverAnswers == \E line \in {"sat", "unsat", ""} : Answer(line)

NextComposer == CallComposer \/ SolverAnswers

SpecComposer == InitComposer /\ [][NextComposer]_vars

\* ================================================================ Z3 driver
\* One run of main from `solver = Z3(...)` on.  solver.stdin is what the
\* tool wrote to the pipe, its first `flushed` commands have reached z3;
\* solver.lines is what the tool read back.  An obligation is taken as what
\* it does to the driver: it returns without the solver, dies of an uncaught
\* exception, or calls check_sat(f).

\* obligations main runs before it returns (12 in main)
MaxObligations == 3

\* formulas handed to check_sat
Formulas == {"f1", "f2"}

\* answer lines of z3 other than EOF
Responses == {"sat", "unsat", "unknown"}

Cmd(cmd, f) == [cmd |-> cmd, f |-> f]

\* the order of check_sat: reset(), write(assert), write(check-sat), flush(),
\* readline(); "call" is the entry of the function
check_sat_next_no_flush(at) ==
    CASE at = "call" -> "reset"
      [] at = "reset" -> "assert"
      [] at = "assert" -> "check-sat"
      [] at = "check-sat" -> "readline"
      [] at = "flush" -> "readline"

check_sat_next_no_reset(at) ==
    CASE at = "call" -> "assert"
      [] at = "reset" -> "assert"
      [] at = "assert" -> "check-sat"
      [] at = "check-sat" -> "flush"
      [] at = "flush" -> "readline"

check_sat_next(at) ==
    CASE at = "call" -> "reset"
      [] at = "reset" -> "assert"
      [] at = "assert" -> "check-sat"
      [] at = "check-sat" -> "flush"
      [] at = "flush" -> "readline"

\* solver.kill() in Z3.abort
abort_kill_skipped(s) == s

abort_kill(s) == [s EXCEPT !.killed = TRUE, !.alive = FALSE]

\* Z3.abort: kill, set the flag, sys.exit()
abort(s) ==
    /\ solver' = abort_kill(s)
    /\ aborted' = TRUE
    /\ zpc' = "exit"
    /\ zend' = "abort"

InitZ3 ==
    /\ pc = "off"
    /\ EmptyNet
    /\ ComposerOff
    /\ zpc = "start"
    /\ solver = [spawned |-> 0, alive |-> FALSE, killed |-> FALSE,
                 stdin |-> <<>>, flushed |-> 0, lines |-> <<>>, broken |-> FALSE]
    /\ aborted = FALSE
    /\ zcalls = <<>>
    /\ zret = <<>>
    /\ zend = ""
    /\ FastOff
    /\ ParserOff
    /\ MainOff

z3Others == <<pc, nlines, netVars, seqVars, smt, compVars, fastVars, pfVars, mainVars>>

\* Z3.__init__: Popen(['z3', '-in']), aborted = False
Z3_init ==
    /\ zpc = "start"
    /\ solver' = [solver EXCEPT !.spawned = @ + 1, !.alive = TRUE]
    /\ aborted' = FALSE
    /\ zpc' = "main"
    /\ UNCHANGED <<zcalls, zret, zend, z3Others>>

\* an obligation that returns True without the solver
\* (check_silent_reachability_set on an empty list)
ObligationReturns ==
    /\ zpc = "main"
    /\ Len(zret) < MaxObligations
    /\ zret' = Append(zret, [call |-> 0, value |-> TRUE])
    /\ UNCHANGED <<zpc, solver, aborted, zcalls, zend, z3Others>>

\* an obligation whose composition raises an exception nobody catches
ObligationRaises ==
    /\ zpc = "main"
    /\ Len(zret) < MaxObligations
    /\ zpc' = "exit"
    /\ zend' = "exception"
    /\ UNCHANGED <<solver, aborted, zcalls, zret, z3Others>>

\* an obligation reaches solver.check_sat(f)
check_sat(f) ==
    /\ zpc = "main"
    /\ Len(zret) < MaxObligations
    /\ zcalls' = Append(zcalls, f)
    /\ zpc' = check_sat_next("call")
    /\ UNCHANGED <<solver, aborted, zret, zend, z3Others>>

\* the command check_sat writes at a position
command_at(at) ==
    CASE at = "reset" -> Cmd("reset", "")
      [] at = "assert" -> Cmd("assert", zcalls[Len(zcalls)])
      [] at = "check-sat" -> Cmd("check-sat", "")

\* Z3.write: the bytes go to the pipe, or BrokenPipeError and abort
write(ok) ==
    /\ zpc \in {"reset", "assert", "check-sat"}
    /\ ok \/ ~solver.alive
    /\ IF ok
       THEN /\ solver' = [solver EXCEPT !.stdin = Append(@, command_at(zpc))]
            /\ zpc' = check_sat_next(zpc)
            /\ UNCHANGED <<aborted, zend>>
       ELSE abort([solver EXCEPT !.broken = TRUE])
    /\ UNCHANGED <<zcalls, zret, z3Others>>

\* Z3.flush: what was written reaches z3, or BrokenPipeError and abort
flush(ok) ==
    /\ zpc = "flush"
    /\ ok \/ ~solver.alive
    /\ IF ok
       THEN /\ solver' = [solver EXCEPT !.flushed = IF solver.alive THEN Len(solver.stdin) ELSE @]
            /\ zpc' = check_sat_next(zpc)
            /\ UNCHANGED <<aborted, zend>>
       ELSE abort([solver EXCEPT !.broken = TRUE])
    /\ UNCHANGED <<zcalls, zret, z3Others>>

\* a (check-sat) has reached z3 and its answer has not been read
Answerable ==
    Cardinality({i \in 1..solver.flushed : solver.stdin[i].cmd = "check-sat"})
        > Len(solver.lines)

\* Z3.readline and the rest of check_sat: one line is read (empty at end of
\* stream); True on `sat`, False on `unsat`, abort otherwise
readline(line) ==
    /\ zpc = "readline"
    /\ \/ line \in Responses /\ Answerable
       \/ line = "" /\ ~solver.alive
    /\ LET s == [solver EXCEPT !.lines = Append(@, line)]
       IN IF line \in {"sat", "unsat"}
          THEN /\ solver' = s
               /\ zret' = Append(zret, [call |-> Len(zcalls), value |-> (line = "sat")])
               /\ zpc' = "main"
               /\ UNCHANGED <<aborted, zend>>
          ELSE /\ abort(s)
               /\ zret' = zret
    /\ UNCHANGED <<zcalls, z3Others>>

\* z3 ends by itself (crash, -T timeout)
SolverExits ==
    /\ zpc \notin {"start", "exit"}
    /\ solver.alive
    /\ solver' = [solver EXCEPT !.alive = FALSE]
    /\ UNCHANGED <<zpc, aborted, zcalls, zret, zend, z3Others>>

\* main returns after its last print; nothing follows the last obligation
main_return ==
    /\ zpc = "main"
    /\ Len(zret) = MaxObligations
    /\ zpc' = "exit"
    /\ zend' = "return"
    /\ UNCHANGED <<solver, aborted, zcalls, zret, z3Others>>

CheckSat == \E f \in Formulas : check_sat(f)

Write == \E ok \in BOOLEAN : write(ok)

Flush == \E ok \in BOOLEAN : flush(ok)

Readline == \E line \in Responses \cup {""} : readline(line)

NextZ3 ==
    \/ Z3_init
    \/ ObligationReturns
    \/ ObligationRaises
    \/ CheckSat
    \/ Write
    \/ Flush
    \/ Readline
    \/ SolverExits
    \/ main_return

SpecZ3 == InitZ3 /\ [][NextZ3]_vars

\* ======================================================= accelerator driver
\* fast.tau_star on a parsed net.  A subprocess is taken as its returncode and
\* what it wrote; a line of fast's stderr as whether it holds `OK !` and the
\* summands `split('+')` / `split('.')` find in its third word.

\* lines of the xsltproc output
MaxFstLines == 3

\* lines of fast's stderr
MaxOutLines == 2

\* summands of one `OK !` line
MaxSummands == 2

\* a line of the .fst text: the one holding 'var ', the one holding
\* ' Region init :=', any other
FstLines == {"var", "region", "other"}

FstTexts == UNION {[1..n -> FstLines] : n \in 0..MaxFstLines}

\* summands written by fast: transition ids joined by `.` (t2 is no
\* transition of some of the nets below)
Summands == {<<"t1">>, <<"t2", "t1">>}

OutLine(ok, expr) == [ok |-> ok, expr |-> expr]

OutLines ==
    {OutLine(FALSE, <<>>)}
    \cup {OutLine(TRUE, e) : e \in UNION {[1..n -> Summands] : n \in 1..MaxSummands}}

Outputs == UNION {[1..n -> OutLines] : n \in 0..MaxOutLines}

\* the nets tau_star is called on: their silent and labeled transitions
FastNets ==
    {[silent |-> <<>>, labeled |-> <<>>],
     [silent |-> <<>>, labeled |-> <<"t1">>],
     [silent |-> <<"t1">>, labeled |-> <<>>],
     [silent |-> <<"t1">>, labeled |-> <<"t2">>],
     [silent |-> <<"t1", "t2">>, labeled |-> <<>>]}

Range(f) == {f[i] : i \in DOMAIN f}

InitFast ==
    /\ pc = "off"
    /\ nlines = 0
    /\ places = {}
    /\ \E n \in FastNets :
          /\ silent_transitions = n.silent
          /\ labeled_transitions = n.labeled
          /\ transitions = Range(n.silent) \cup Range(n.labeled)
          /\ label = [t \in TransIds |-> IF t \in Range(n.silent) THEN "tau"
                                         ELSE IF t \in Range(n.labeled) THEN "1" ELSE ""]
    /\ pre = [t \in TransIds |-> EmptyMap]
    /\ post = [t \in TransIds |-> EmptyMap]
    /\ delta = [t \in TransIds |-> EmptyMap]
    /\ connected_places = [t \in TransIds |-> {}]
    /\ sequence = <<>>
    /\ hurdle = EmptyMap
    /\ sdelta = EmptyMap
    /\ smt = <<>>
    /\ ComposerOff
    /\ Z3Off
    /\ fpc = "call"
    /\ fspawned = <<>>
    /\ fexit = [st \in Stages |-> NoIndex]
    /\ ftemp = 0
    /\ fenv = FALSE
    /\ var_index = NoIndex
    /\ region_index = NoIndex
    /\ fout = <<>>
    /\ fsequences = <<>>
    /\ fend = ""
    /\ ParserOff
    /\ MainOff

fastOthers == <<pc, nlines, netVars, seqVars, smt, z3Vars, pfVars, mainVars>>

\* what main hands the composer once tau_star(n1, c1) has returned
AfterTauStar(sequences) ==
    [places1 |-> <<"p">>, places2 |-> <<"q">>, additional1 |-> <<>>, additional2 |-> <<>>,
     common |-> <<>>, tau1 |-> Len(sequences), tau2 |-> 0]

\* `return sequences`
tau_star_return(sequences) ==
    /\ fpc' = "returned"
    /\ fend' = "returned"
    /\ fsequences' = sequences
    /\ cin' = AfterTauStar(sequences)
    /\ cpc' = "idle"
    /\ UNCHANGED <<cfun, csent, cverdict>>

\* sys.exit("Error: ...") or an uncaught exception
tau_star_fails ==
    /\ fpc' = "exit"
    /\ fend' = "failure"
    /\ UNCHANGED <<fsequences, compVars>>

\* `if not ptnet.silent_transitions`
no_silent_never(silent) == FALSE

no_silent(silent) == silent = <<>>

\* `if <process>.returncode`
failed_never(returncode) == FALSE

failed(returncode) == returncode # 0

\* the entry of tau_star: return [] at once, or create the .pnml file
tau_star_call ==
    /\ fpc = "call"
    /\ IF no_silent(silent_transitions)
       THEN /\ tau_star_return(<<>>)
            /\ UNCHANGED ftemp
       ELSE /\ fpc' = "ndrio"
            /\ ftemp' = ftemp + 1
            /\ UNCHANGED <<fsequences, fend, compVars>>
    /\ UNCHANGED <<fspawned, fexit, fenv, var_index, region_index, fout, fastOthers>>

\* ndrio is started, fed the silent restriction and waited for
ndrio(returncode) ==
    /\ fpc = "ndrio"
    /\ fspawned' = Append(fspawned, "ndrio")
    /\ fexit' = [fexit EXCEPT !["ndrio"] = returncode]
    /\ IF failed(returncode)
       THEN tau_star_fails
       ELSE /\ fpc' = "xsltproc"
            /\ UNCHANGED <<fsequences, fend, compVars>>
    /\ UNCHANGED <<ftemp, fenv, var_index, region_index, fout, fastOthers>>

RECURSIVE scan(_, _, _)
\* the loop over enumerate(fst): <<var_index, region_index>>, indices from 0
scan(fst, index, var) ==
    IF index >= Len(fst) THEN <<var, NoIndex>>
    ELSE LET line == fst[index + 1]
             v == IF line = "var" THEN index ELSE var
         IN IF line = "region" THEN <<v, index>> ELSE scan(fst, index + 1, v)

\* Python truth of an index: None and 0 are false
truthy(index) == index # NoIndex /\ index # 0

\* xsltproc is run; its output is scanned for the two lines; the .fst file is
\* written and the engine set in the environment
xsltproc(returncode, fst) ==
    /\ fpc = "xsltproc"
    /\ fspawned' = Append(fspawned, "xsltproc")
    /\ fexit' = [fexit EXCEPT !["xsltproc"] = returncode]
    /\ IF failed(returncode)
       THEN /\ tau_star_fails
            /\ UNCHANGED <<var_index, region_index, ftemp, fenv>>
       ELSE LET found == scan(fst, 0, NoIndex)
            IN /\ var_index' = found[1]
               /\ region_index' = found[2]
               /\ IF ~(truthy(found[1]) /\ truthy(found[2]))
                  THEN /\ tau_star_fails
                       /\ UNCHANGED <<ftemp, fenv>>
                  ELSE /\ fpc' = "fast"
                       /\ ftemp' = ftemp + 1
                       /\ fenv' = TRUE
                       /\ UNCHANGED <<fsequences, fend, compVars>>
    /\ UNCHANGED <<fout, fastOthers>>

\* `counter += 1`, once per OK-line
next_counter_per_summand(counter, n) == counter + n

next_counter(counter, n) == counter + 1

RECURSIVE parse_output(_, _, _, _)
\* the loop over the lines of fast's stderr; raised on a transition id that
\* is not a key of ptnet.transitions (KeyError)
parse_output(lines, i, sequences, counter) ==
    IF i > Len(lines) THEN [raised |-> FALSE, sequences |-> sequences]
    ELSE IF lines[i].ok
    THEN LET fast_sequences == lines[i].expr
         IN IF \E k \in DOMAIN fast_sequences :
                   \E j \in DOMAIN fast_sequences[k] : fast_sequences[k][j] \notin transitions
            THEN [raised |-> TRUE, sequences |-> <<>>]
            ELSE parse_output(lines, i + 1,
                     sequences \o [k \in DOMAIN fast_sequences |->
                                      [saturation_variable |-> <<"tau", counter>>,
                                       sequence |-> fast_sequences[k]]],
                     next_counter(counter, Len(fast_sequences)))
    ELSE parse_output(lines, i + 1, sequences, counter)

\* fast is run and its stderr parsed
fast(returncode, out) ==
    /\ fpc = "fast"
    /\ fspawned' = Append(fspawned, "fast")
    /\ fexit' = [fexit EXCEPT !["fast"] = returncode]
    /\ IF failed(returncode)
       THEN /\ tau_star_fails
            /\ fout' = <<>>
       ELSE /\ fout' = out
            /\ LET r == parse_output(out, 1, <<>>, 0)
               IN IF r.raised THEN tau_star_fails ELSE tau_star_return(r.sequences)
    /\ UNCHANGED <<ftemp, fenv, var_index, region_index, fastOthers>>

Ndrio == \E returncode \in {0, 1} : ndrio(returncode)

Xsltproc == \E returncode \in {0, 1}, fst \in FstTexts : xsltproc(returncode, fst)

Fast == \E returncode \in {0, 1}, out \in Outputs : fast(returncode, out)

\* main: check_silent_reachability_set(solver, n1, c1, n2, c2, e, tau1_star)
Conformance == Call("check_silent_reachability_set", FALSE)

NextFast == tau_star_call \/ Ndrio \/ Xsltproc \/ Fast \/ Conformance

SpecFast == InitFast /\ [][NextFast]_vars

\* ======================================================== constraint parser
\* Presburger.parse_formula on the tokens _tokenize yields.  An atom (a
\* comparison, T, F) is one opaque token; "and", "or", "not" stand for the
\* tokens `/\`, `\/`, `-`.

\* tokens of a constraint
MaxTokens == 5

AtomTokens == {"A", "B", "C"}

OperatorTokens == {"and", "or", "not"}

Tokens == AtomTokens \cup OperatorTokens \cup {"(", ")"}

Formulas_text == UNION {[1..n -> Tokens] : n \in 0..MaxTokens}

\* an expression tree: an atom, or StateFormula(operands, operator)
AtomNode(name) == [operator |-> "atom", name |-> name, operands |-> <<>>]

StateFormula(operands, operator) == [operator |-> operator, name |-> "", operands |-> operands]

\* the stacks and counters of parse_formula before the first token
parse_start ==
    [open_parenthesis |-> 0, stack_operator |-> <<>>, stack_operands |-> <<<<>>>>,
     current_operator |-> "", raised |-> FALSE]

Top(stack) == stack[Len(stack)]

Pop(stack) == SubSeq(stack, 1, Len(stack) - 1)

SetTop(stack, v) == [stack EXCEPT ![Len(stack)] = v]

Raise(st) == [st EXCEPT !.raised = TRUE]

\* one turn of the loop over the tokens.  push_on_change tells whether an
\* operator that differs from the current one is pushed and made current
\* after the operands read so far were grouped.
parse_step(st, token, push_on_change) ==
    IF st.raised THEN st
    ELSE IF token \in OperatorTokens
    THEN IF st.current_operator # ""
         THEN IF st.current_operator # token
              THEN IF st.stack_operator = <<>> THEN Raise(st)
                   ELSE LET grouped == StateFormula(Top(st.stack_operands),
                                                    Top(st.stack_operator)[1])
                            popped == Pop(st.stack_operator)
                        IN [st EXCEPT
                              !.stack_operands = SetTop(@, <<grouped>>),
                              !.stack_operator =
                                  IF push_on_change
                                  THEN Append(popped, <<token, st.open_parenthesis>>)
                                  ELSE popped,
                              !.current_operator = IF push_on_change THEN token ELSE @]
              ELSE st
         ELSE [st EXCEPT !.stack_operator = Append(@, <<token, st.open_parenthesis>>),
                         !.current_operator = token]
    ELSE IF token = "("
    THEN [st EXCEPT !.open_parenthesis = @ + 1,
                    !.stack_operands = Append(@, <<>>),
                    !.current_operator = ""]
    ELSE IF token = ")"
    THEN IF st.open_parenthesis = 0 THEN Raise(st)
         ELSE LET depth == st.open_parenthesis - 1
                  operands == Top(st.stack_operands)
                  rest == Pop(st.stack_operands)
              IN IF st.current_operator # ""
                 THEN IF st.stack_operator = <<>> THEN Raise(st)
                      ELSE LET ops == Pop(st.stack_operator)
                           IN [st EXCEPT
                                 !.open_parenthesis = depth,
                                 !.stack_operands =
                                     SetTop(rest, Append(Top(rest),
                                         StateFormula(operands, Top(st.stack_operator)[1]))),
                                 !.stack_operator = ops,
                                 !.current_operator =
                                     IF ops # <<>> /\ Top(ops)[2] = depth
                                     THEN Top(ops)[1] ELSE ""]
                 ELSE IF operands = <<>> THEN Raise(st)
                      ELSE [st EXCEPT
                              !.open_parenthesis = depth,
                              !.stack_operands = SetTop(rest, Append(Top(rest), operands[1])),
                              !.current_operator =
                                  IF st.stack_operator # <<>> /\ Top(st.stack_operator)[2] = depth
                                  THEN Top(st.stack_operator)[1] ELSE ""]
    ELSE [st EXCEPT !.stack_operands = SetTop(@, Append(Top(@), AtomNode(token)))]

\* the loop body as written: after grouping, the new operator is neither
\* pushed nor made current
parse_token(st, token) == parse_step(st, token, FALSE)

RECURSIVE parse_tokens(_, _, _)
parse_tokens(st, tokens, push_on_change) ==
    IF tokens = <<>> THEN st
    ELSE parse_tokens(IF push_on_change THEN parse_step(st, Head(tokens), TRUE)
                      ELSE parse_token(st, Head(tokens)),
                      Tail(tokens), push_on_change)

\* what follows the loop: the exception, or self.F
parse_end(st) ==
    IF st.raised \/ st.open_parenthesis # 0 THEN [raised |-> TRUE, F |-> <<>>]
    ELSE IF st.stack_operator # <<>>
    THEN [raised |-> FALSE,
          F |-> StateFormula(Top(st.stack_operands), Top(st.stack_operator)[1])]
    ELSE IF Top(st.stack_operands) = <<>> THEN [raised |-> TRUE, F |-> <<>>]
    ELSE [raised |-> FALSE, F |-> Top(st.stack_operands)[1]]

\* Presburger.parse_formula
parse_formula(tokens) == parse_end(parse_tokens(parse_start, tokens, FALSE))

InitParser ==
    /\ pc = "off"
    /\ EmptyNet
    /\ ComposerOff
    /\ Z3Off
    /\ FastOff
    /\ MainOff
    /\ formula \in Formulas_text
    /\ F = <<>>
    /\ member = <<>>
    /\ term = <<>>

\* parse_coherency_constraint hands the constraint to parse_formula
ParseFormula ==
    /\ F = <<>>
    /\ F' = <<parse_formula(formula)>>
    /\ UNCHANGED <<formula, member, term, pc, nlines, netVars, seqVars, smt, compVars,
                   z3Vars, fastVars, mainVars>>

NextParser == ParseFormula

SpecParser == InitParser /\ [][NextParser]_vars

\* ============================================================ linear terms
\* _member_constructor on one side of a comparison, written as the list of
\* its `+`-separated elements, and TokenCount.smtlib / IntegerConstant.smtlib
\* on what it returns.

\* elements of a term
MaxElements == 3
\* largest integer literal of a term
MaxLiteral == 2
\* largest multiplier written in front of a variable
MaxMultiplier == 2
\* largest value given to a variable
MaxValue == 2

\* names of a term: p is a place of the net, x is not
MemberNames == {"p", "x"}

\* self.places
MemberPlaces == {"p"}

\* an element is an integer literal (`2`), a name (`p`, multiplier 0: none
\* written) or a multiplied name (`2*p`)
Elements ==
    [literal : {TRUE}, n : 0..MaxLiteral, name : {""}]
    \cup [literal : {FALSE}, n : 0..MaxMultiplier, name : MemberNames]

Members == UNION {[1..n -> Elements] : n \in 1..MaxElements}

\* the loop of _member_constructor over the elements
RECURSIVE member_loop(_, _)
member_loop(elements, acc) ==
    IF elements = <<>> THEN acc
    ELSE LET el == Head(elements)
             place == el.name \in MemberPlaces
             next ==
                IF el.literal
                THEN [acc EXCEPT !.integer_constant = @ + el.n]
                ELSE [places |-> IF place THEN Append(acc.places, el.name) ELSE acc.places,
                      additional_variables |->
                          IF place THEN acc.additional_variables
                          ELSE Append(acc.additional_variables, el.name),
                      integer_constant |-> acc.integer_constant,
                      multipliers |-> IF el.n # 0 THEN Put(acc.multipliers, el.name, el.n)
                                      ELSE acc.multipliers]
         IN member_loop(Tail(elements), next)

\* TokenCount(places, additional_variables, multipliers)
TokenCount(pls, variables, mults) ==
    [class |-> "TokenCount", places |-> pls,
     additional_variables |-> variables, multipliers |-> mults, value |-> 0]

\* IntegerConstant(value)
IntegerConstant(value) ==
    [class |-> "IntegerConstant", places |-> <<>>, additional_variables |-> <<>>,
     multipliers |-> EmptyMap, value |-> value]

\* _member_constructor(member): the expression returned and the names it
\* appended to self.additional_vars
member_constructor(elements) ==
    LET acc == member_loop(elements,
                   [places |-> <<>>, additional_variables |-> <<>>, integer_constant |-> 0,
                    multipliers |-> EmptyMap])
    IN [expression |->
            IF acc.places # <<>> \/ acc.additional_variables # <<>>
            THEN TokenCount(acc.places, acc.additional_variables, acc.multipliers)
            ELSE IntegerConstant(acc.integer_constant),
        additional_vars |-> acc.additional_variables]

\* TokenCount.smtlib / IntegerConstant.smtlib: the summands written, each a
\* name with the factor written for it (1: none written), or the literal
Expression_smtlib(expression) ==
    IF expression.class = "IntegerConstant"
    THEN <<[name |-> "", factor |-> expression.value]>>
    ELSE LET names == expression.places \o expression.additional_variables
         IN [i \in 1..Len(names) |->
                [name |-> names[i], factor |-> Get(expression.multipliers, names[i], 1)]]

InitMember ==
    /\ pc = "off"
    /\ EmptyNet
    /\ ComposerOff
    /\ Z3Off
    /\ FastOff
    /\ MainOff
    /\ formula = <<>>
    /\ F = <<>>
    /\ member \in Members
    /\ term = <<>>

\* parse_formula hands one side of a comparison to _member_constructor
MemberConstructor ==
    /\ term = <<>>
    /\ term' = <<member_constructor(member)>>
    /\ UNCHANGED <<formula, F, member, pc, nlines, netVars, seqVars, smt, compVars,
                   z3Vars, fastVars, mainVars>>

NextMember == MemberConstructor

SpecMember == InitMember /\ [][NextMember]_vars

\* ===================================================================== main
\* One run of main from the first call of tau_star on.  cin holds what the
\* parsers built and what tau_star returns for each net when it returns.

\* the obligations of main in the order of its print statements
Obligations ==
    << <<"check_silent_reachability_set", FALSE>>, <<"check_silent_reachability_set", TRUE>>,
       <<"core_1", FALSE>>, <<"core_2", FALSE>>, <<"core_3", FALSE>>, <<"core_4", FALSE>>,
       <<"core_5", FALSE>>,
       <<"core_1", TRUE>>, <<"core_2", TRUE>>, <<"core_3", TRUE>>, <<"core_4", TRUE>>,
       <<"core_5", TRUE>> >>

InitMain ==
    /\ pc = "off"
    /\ EmptyNet
    /\ cin \in Inputs
    /\ cpc = "idle"
    /\ cfun = <<>>
    /\ csent = <<>>
    /\ cverdict = <<>>
    /\ Z3Off
    /\ FastOff
    /\ ParserOff
    /\ mpc = "tau1"
    /\ mpos = 0
    /\ mout = <<>>
    /\ mend = ""

mainOthers == <<pc, nlines, netVars, seqVars, smt, cin, fastVars, pfVars>>

\* the statements of main with the solver created between the two calls of
\* tau_star
main_next_solver_between(at) ==
    CASE at = "tau1" -> "solver"
      [] at = "solver" -> "tau2"
      [] at = "tau2" -> "obligation"

\* what follows a statement of main: tau1_star = tau_star(...), then
\* tau2_star = tau_star(...), then solver = Z3(...), then the obligations
main_next(at) ==
    CASE at = "tau1" -> "tau2"
      [] at = "tau2" -> "solver"
      [] at = "solver" -> "obligation"

\* tau1_star = tau_star(n1, c1, debug), then tau2_star = tau_star(n2, c2,
\* debug): the call returns its list, or ends the tool (sys.exit or an
\* uncaught exception inside the driver)
main_tau_star(ok) ==
    /\ mpc \in {"tau1", "tau2"}
    /\ IF ok
       THEN /\ mpc' = main_next(mpc)
            /\ mend' = mend
       ELSE /\ mpc' = "ended"
            /\ mend' = "fatal"
    /\ UNCHANGED <<mpos, mout, compVars, z3Vars, mainOthers>>

\* solver = Z3(results.debug)
main_Z3 ==
    /\ mpc = "solver"
    /\ solver' = [solver EXCEPT !.spawned = @ + 1, !.alive = TRUE]
    /\ aborted' = FALSE
    /\ mpc' = main_next(mpc)
    /\ mpos' = 1
    /\ UNCHANGED <<zpc, zcalls, zret, zend, mout, mend, cpc, cfun, csent, cverdict, mainOthers>>

\* print(label, value) of the obligation main is at, and what follows it:
\* the next obligation, or the end of main after the last one
main_print(value) ==
    /\ mout' = Append(mout, [ob |-> mpos, value |-> value])
    /\ cverdict' = Append(cverdict, value)
    /\ cpc' = "idle"
    /\ IF mpos < Len(Obligations)
       THEN /\ mpos' = mpos + 1
            /\ UNCHANGED <<mpc, mend>>
       ELSE /\ mpos' = mpos
            /\ mpc' = "ended"
            /\ mend' = "return"

\* the call of the obligation inside the print statement: it returns True
\* without the solver, dies of an uncaught exception, or hands its formula
\* to Z3.check_sat
main_obligation ==
    /\ mpc = "obligation"
    /\ cpc = "idle"
    /\ cfun' = Obligations[mpos]
    /\ LET r == Called(Obligations[mpos][1], Obligations[mpos][2])
       IN IF r.returned
          THEN /\ main_print(TRUE)
               /\ UNCHANGED csent
          ELSE IF r.raised
          THEN /\ cpc' = "raised"
               /\ mpc' = "ended"
               /\ mend' = "exception"
               /\ UNCHANGED <<csent, cverdict, mpos, mout>>
          ELSE /\ cpc' = "asked"
               /\ csent' = Append(csent, r.f)
               /\ UNCHANGED <<cverdict, mpc, mpos, mout, mend>>
    /\ UNCHANGED <<z3Vars, mainOthers>>

\* Z3.check_sat reads the answer: `sat` and `unsat` are returned and
\* printed, anything else is Z3.abort (kill, sys.exit)
main_answer(line) ==
    /\ mpc = "obligation"
    /\ cpc = "asked"
    /\ IF line \in {"sat", "unsat"}
       THEN /\ main_print(line = "sat")
            /\ UNCHANGED z3Vars
       ELSE /\ cpc' = "aborted"
            /\ solver' = abort_kill(solver)
            /\ aborted' = TRUE
            /\ mpc' = "ended"
            /\ mend' = "abort"
            /\ UNCHANGED <<cverdict, mpos, mout, zpc, zcalls, zret, zend>>
    /\ UNCHANGED <<cfun, csent, mainOthers>>

TauStar == \E ok \in BOOLEAN : main_tau_star(ok)

MainAnswer == \E line \in {"sat", "unsat", ""} : main_answer(line)

NextMain == TauStar \/ main_Z3 \/ main_obligation \/ MainAnswer

SpecMain == InitMain /\ [][NextMain]_vars

\* ======================================================== properties of Spec

\* ------------------------------------------------ the Petri-net firing rule
\* A transition fires from m only if m >= its pre vector, and then adds its
\* delta.
FireOne(r, t) ==
    IF /\ r.ok
       /\ \A p \in DOMAIN pre[t] : r.m[p] >= pre[t][p]
    THEN [ok |-> TRUE, m |-> [p \in places |-> r.m[p] + Get(delta[t], p, 0)]]
    ELSE [ok |-> FALSE, m |-> r.m]

\* the transitions of seq fired one after the other
RECURSIVE FireList(_, _)
FireList(r, seq) ==
    IF seq = <<>> THEN r ELSE FireList(FireOne(r, Head(seq)), Tail(seq))

\* seq fired s times in a row
RECURSIVE FireTimes(_, _, _)
FireTimes(r, seq, s) ==
    IF s = 0 THEN r ELSE FireTimes(FireList(r, seq), seq, s - 1)

\* m + s * Delta(sigma), a place outside the support counting as 0
Displaced(m, s) == [p \in places |-> m[p] + s * Get(sdelta, p, 0)]

\* C1: for a non-empty sequence, a marking m and s >= 1 firings, the hurdle
\* condition written by Sequence.smtlib holds at m exactly when the sequence
\* can be fired s times in a row from m, and the marking then reached is
\* m + s * Delta(sigma).
C1_HurdleIffFirable ==
    (pc = "sigma" /\ sequence # <<>>) =>
        \A m \in Markings, s \in 1..MaxFirings :
            LET r == FireTimes([ok |-> TRUE, m |-> m], sequence, s)
            IN /\ HurdleSat(smt, m, s) <=> r.ok
               /\ r.ok => r.m = Displaced(m, s)

\* every transition of the net was declared on one `tr` line only
DeclaredOnce ==
    \A t \in transitions : \A p \in PlaceIds :
        Get(delta[t], p, 0) = Get(post[t], p, 0) - Get(pre[t], p, 0)

\* the hurdle condition is exact on the nets whose delta maps are post - pre
HurdleIffFirable_DeclaredOnce == DeclaredOnce => C1_HurdleIffFirable

\* C2: the disjunct of the labeled relation written for transition t holds at
\* (m, m', l) exactly when m >= pre(t), m' = m + Delta(t) on every place of
\* the net, and l is the label of t.
C2_DisjunctIsFiring ==
    (pc = "T" /\ places # {}) =>
        \A i \in 1..Len(smt) :
            smt[i].src \in TransIds =>
                \A m \in Markings, mp \in Markings, lv \in 0..1 :
                    ConjSat(smt[i], m, mp, lv) <=>
                        /\ \A p \in places : m[p] >= Get(pre[smt[i].src], p, 0)
                        /\ \A p \in places :
                              mp[p] = m[p] + Get(delta[smt[i].src], p, 0)
                        /\ lv = label_int(label[smt[i].src])

\* C3: after any `tr` lines, every transition has Delta = post - pre on every
\* place, and no place with post - pre = 0 is a key of the delta map.
C3_DeltaIsPostMinusPre ==
    \A t \in transitions : \A p \in PlaceIds :
        /\ Get(delta[t], p, 0) = Get(post[t], p, 0) - Get(pre[t], p, 0)
        /\ (Get(post[t], p, 0) - Get(pre[t], p, 0) = 0) => p \notin DOMAIN delta[t]

\* the sum over i of Delta(seq[i])[p]
RECURSIVE SumDelta(_, _, _)
SumDelta(seq, i, p) ==
    IF i = 0 THEN 0 ELSE SumDelta(seq, i - 1, p) + Get(delta[seq[i]], p, 0)

\* C4: the displacement of a sequence is, on every place, the sum of the
\* deltas of its transitions (0 outside every support); the empty list has an
\* empty hurdle map and an empty displacement map.
C4_DisplacementIsSum ==
    (pc \in {"built", "sigma"}) =>
        /\ \A p \in PlaceIds : Get(sdelta, p, 0) = SumDelta(sequence, Len(sequence), p)
        /\ sequence = <<>> => (DOMAIN hurdle = {} /\ DOMAIN sdelta = {})

\* a list of two transitions (possibly the same one twice) that both move
\* tokens of one place
C4_Witness ==
    /\ pc = "built"
    /\ Len(sequence) = 2
    /\ \E p \in places : /\ Get(delta[sequence[1]], p, 0) # 0
                         /\ Get(delta[sequence[2]], p, 0) # 0

\* H(t.sigma)[p] = max(pre(t)[p], H(sigma)[p] - Delta(t)[p]) clamped at zero,
\* from the all-zero hurdle of the empty sequence
RECURSIVE FoldHurdle(_, _)
FoldHurdle(seq, p) ==
    IF seq = <<>> THEN 0
    ELSE Max(0, Max(Get(pre[Head(seq)], p, 0),
                    FoldHurdle(Tail(seq), p) - Get(delta[Head(seq)], p, 0)))

\* C5: the hurdle map of a sequence is the rightmost-first fold on every
\* place, and no entry is negative.
C5_HurdleIsFold ==
    (pc \in {"built", "sigma"}) =>
        /\ \A p \in PlaceIds : Get(hurdle, p, 0) = FoldHurdle(sequence, p)
        /\ \A p \in DOMAIN hurdle : hurdle[p] >= 0

\* two transitions, where on one place the first helps the second and the
\* hurdle is above what the first one asks, and on one place the difference
\* H(sigma) - Delta(t) is negative
C5_Witness ==
    /\ pc = "built"
    /\ Len(sequence) = 2
    /\ \E p \in places :
          /\ Get(hurdle, p, 0) > Get(pre[sequence[1]], p, 0)
          /\ Get(delta[sequence[1]], p, 0) # 0
    /\ \E q \in places :
          FoldHurdle(Tail(sequence), q) - Get(delta[sequence[1]], q, 0) < 0

\* the stuttering disjunct: all places equal and nothing else
IsStutter(c) ==
    /\ c.src \in {"stutter", "true"}
    /\ ~c.lab
    /\ DOMAIN c.ge = {}
    /\ DOMAIN c.upd = {}
    /\ c.eq = places

\* C6: the silent relation holds disjuncts of silent transitions only, plus
\* the stuttering disjunct, which is always there; tau(k, k) holds at every
\* marking.
C6_TauStutters ==
    (pc = "tau") =>
        /\ \A i \in 1..Len(smt) :
              \/ IsStutter(smt[i])
              \/ /\ smt[i].src \in transitions
                 /\ label[smt[i].src] = "tau"
                 /\ smt[i] = Transition_smtlib(smt[i].src, FALSE)
        /\ \E i \in 1..Len(smt) : IsStutter(smt[i])
        /\ \A m \in Markings : RelSat(smt, m, m, 0)

\* a net with places, a silent and a labeled transition, and a marking where
\* no silent transition is enabled
C6_Witness ==
    /\ pc = "tau"
    /\ places # {}
    /\ silent_transitions # <<>>
    /\ labeled_transitions # <<>>
    /\ \E m \in Markings :
          \A i \in 1..Len(smt) : smt[i].src \in transitions => ~ConjSat(smt[i], m, m, 0)

\* C7: for a non-empty sequence, s >= 0; with s = 0 the markings at k and k+1
\* are equal on every place; with s >= 1 every place moves by
\* s * Delta(sigma), so a place with Delta 0 or outside the support is
\* unchanged.
C7_SigmaFrame ==
    (pc = "sigma" /\ sequence # <<>>) =>
        \A m \in Markings, mp \in Markings, s \in (0 - 1)..MaxFirings :
            /\ SigmaSat(smt, m, mp, s) =>
                  /\ s >= 0
                  /\ s = 0 => mp = m
                  /\ s >= 1 => mp = Displaced(m, s)
            /\ (s = 0 /\ mp = m) => SigmaSat(smt, m, mp, s)
            /\ (s >= 1 /\ HurdleSat(smt, m, s) /\ mp = Displaced(m, s))
                  => SigmaSat(smt, m, mp, s)

\* a sequence with a place it moves, a place of the net it leaves alone, and
\* markings it relates with two firings
C7_Witness ==
    /\ pc = "sigma"
    /\ sequence # <<>>
    /\ \E p \in places : Get(sdelta, p, 0) # 0
    /\ \E p \in places : p \notin DOMAIN sdelta
    /\ \E m \in Markings, mp \in Markings : SigmaSat(smt, m, mp, 2) /\ mp # m

\* =============================================== properties of SpecComposer
\* the call being looked at
CalledFn(fn) == cfun # <<>> /\ cfun[1] = fn

\* tau*(a, b) of the statement: exists q. E(a, q) /\ E(b, q), one witness q
\* (the other side's places and the common variables of E) for both
tau_star_stated(a, b, on_reduced) ==
    smt_exists(
        Polyhedron_smtlib_declare(Polyhedron, NoIndex, NoIndex, NoIndex, ~on_reduced, on_reduced),
        smt_and(<<Polyhedron_smtlib(IF on_reduced THEN NoIndex ELSE a,
                                    IF on_reduced THEN a ELSE NoIndex, NoIndex),
                  Polyhedron_smtlib(IF on_reduced THEN NoIndex ELSE b,
                                    IF on_reduced THEN b ELSE NoIndex, NoIndex)>>))

RECURSIVE IndexedFromTo(_, _, _)
IndexedFromTo(names, i, j) ==
    IF i > j THEN <<>> ELSE Indexed(names, i) \o IndexedFromTo(names, i + 1, j)

\* the conformance formula of the statement, for the side playing N1
Conformance_stated(on_reduced) ==
    LET c1 == Side1(on_reduced)
        k == c1.tau
    IN smt_forall(Indexed(c1.places, 0) \o Indexed(c1.places, k),
           smt_imply(Presburger_smtlib(c1, 0),
               smt_equiv(tau_star_stated(0, k, on_reduced),
                         smt_exists(IndexedFromTo(c1.places, 1, k - 1),
                                    smt_and([i \in 1..k |-> Sequence_atom(i - 1, i - 1)])))))

\* C8: when the accelerator returned k >= 1 sequences, the formula handed to
\* the solver by check_silent_reachability_set is: for all markings at index
\* 0 and at index k, C1 at 0 implies ( tau*(0, k) <=> exists the markings at
\* 1..k-1 such that the i-th sequence relates index i to index i+1 ), with
\* tau*(a, b) = exists q. E(a, q) /\ E(b, q).
C8_ConformanceFormula ==
    (CalledFn("check_silent_reachability_set") /\ Side1(cfun[2]).tau >= 1)
        => (cpc # "raised" /\ csent = <<Conformance_stated(cfun[2])>>)

\* That(a, b, l) of the statement: exists a'. tau*(a, a') /\ T(a', b, l);
\* a' is written at the fresh index `fresh`
hat_t_stated(a, b, fresh, on_reduced) ==
    LET c1 == Side1(on_reduced)
    IN smt_exists(Indexed(c1.places, fresh),
           smt_and(<<tau_star_stated(a, fresh, on_reduced),
                     Transition_relation_atom(c1.net, fresh, b)>>))

\* the CORE 2 obligation of the statement
Core_2_stated(on_reduced) ==
    LET c1 == Side1(on_reduced)
    IN smt_forall(Indexed(c1.places, 0) \o Indexed(c1.places, 1) \o <<Var("l", NoIndex)>>,
           smt_imply(smt_and(<<Presburger_smtlib(c1, 0), hat_t_stated(0, 1, 3, on_reduced)>>),
                     smt_exists(Indexed(c1.places, 2),
                         smt_and(<<hat_t_stated(0, 2, 3, on_reduced),
                                   Presburger_smtlib(c1, 2),
                                   tau_star_stated(2, 1, on_reduced)>>))))

\* C9: in each direction core_2 hands the solver the obligation: for all p,
\* p', l (at times 0 and 1), C1(p) and That(p, p', l) imply exists p''.
\* That(p, p'', l) and C1(p'') and tau*(p'', p'), with That(a, b, l) =
\* exists a'. tau*(a, a') and T(a', b, l).
C9_Core2Formula ==
    CalledFn("core_2") => (cpc # "raised" /\ csent = <<Core_2_stated(cfun[2])>>)

\* the CORE 1 obligation of the statement: p ranges over the places of the
\* side playing N1, q over the places of the other side and the common
\* variables of E
Core_1_stated(on_reduced) ==
    LET c1 == Side1(on_reduced)
        c2 == Side2(on_reduced)
    IN smt_forall(Indexed(c1.places, NoIndex),
           smt_imply(Presburger_smtlib(c1, NoIndex),
               smt_exists(
                   Polyhedron_smtlib_declare(Polyhedron, NoIndex, NoIndex, NoIndex,
                                             ~on_reduced, on_reduced),
                   smt_and(<<Polyhedron_smtlib(NoIndex, NoIndex, NoIndex),
                             Presburger_smtlib(c2, NoIndex)>>))))

\* C10: in each direction core_1 hands the solver the obligation: for all p,
\* C1(p) implies exists q. E(p, q) and C2(q), p ranging over the places of
\* the side playing N1 and q over the places of the other side together with
\* the common variables of E.
C10_Core1Formula ==
    CalledFn("core_1") => (cpc # "raised" /\ csent = <<Core_1_stated(cfun[2])>>)

\* core_1's formula differs from the statement only in the variables its
\* outermost quantifier binds: the additional variables of C1 instead of
\* the places of the side playing N1
Core1FormulaUpToBinder ==
    CalledFn("core_1") =>
        /\ cpc # "raised"
        /\ LET c1 == Side1(cfun[2])
               c2 == Side2(cfun[2])
           IN csent = <<smt_forall(Indexed(c1.additional_vars, NoIndex),
                            smt_imply(Presburger_smtlib(c1, NoIndex),
                                smt_exists(
                                    Polyhedron_smtlib_declare(Polyhedron, NoIndex, NoIndex,
                                        NoIndex, ~cfun[2], cfun[2]),
                                    smt_and(<<Polyhedron_smtlib(NoIndex, NoIndex, NoIndex),
                                              Presburger_smtlib(c2, NoIndex)>>))))>>


\* PetriNet.smtlib_silent_transition_relation(k, k_prime) of net n, as an atom
Silent_relation_atom(n, k, k_prime) == Node("tau", <<k, k_prime>>, <<Var(n, NoIndex)>>, <<>>)

\* the places of the N1 side at index a together with those of the other
\* side at index b
BothSides(a, b, on_reduced) ==
    Polyhedron_smtlib_declare(Polyhedron, IF on_reduced THEN b ELSE a,
                              IF on_reduced THEN a ELSE b, NoIndex, FALSE, FALSE)

\* E(p at index a, q at index b) with the N1 side playing p
E_stated(a, b, on_reduced) ==
    Polyhedron_smtlib(IF on_reduced THEN b ELSE a, IF on_reduced THEN a ELSE b, NoIndex)

\* the obligation "silent firing preserves the relation" of the statement
Silent_preserves_stated(on_reduced) ==
    LET c1 == Side1(on_reduced)
    IN smt_forall(BothSides(0, 0, on_reduced) \o Indexed(c1.places, 1),
           smt_imply(smt_and(<<E_stated(0, 0, on_reduced), Silent_relation_atom(c1.net, 0, 1)>>),
                     E_stated(1, 0, on_reduced)))

\* C11: in each direction core_4 hands the solver the obligation: for all p,
\* q, p', E(p, q) and tau(p, p') imply E(p', q), tau being the one-step
\* silent-transition relation of the net (stuttering included) and the
\* antecedent having no other conjunct.
C11_SilentPreservesFormula ==
    CalledFn("core_4") => (cpc # "raised" /\ csent = <<Silent_preserves_stated(cfun[2])>>)

\* That of the statement for the other side: the other net's tau* and
\* labeled step
hat_t_2_stated(a, b, fresh, on_reduced) ==
    LET c2 == Side2(on_reduced)
    IN smt_exists(Indexed(c2.places, fresh),
           smt_and(<<tau_star_stated(a, fresh, ~on_reduced),
                     Transition_relation_atom(c2.net, fresh, b)>>))

\* the obligation "labeled step is simulated" of the statement
Simulated_stated(on_reduced) ==
    LET c1 == Side1(on_reduced)
        c2 == Side2(on_reduced)
    IN smt_forall(BothSides(0, 0, on_reduced) \o BothSides(1, 1, on_reduced)
                  \o <<Var("l", NoIndex)>>,
           smt_imply(smt_and(<<Presburger_smtlib(c1, 0), Presburger_smtlib(c2, 0),
                               E_stated(0, 0, on_reduced), hat_t_stated(0, 1, 2, on_reduced),
                               E_stated(1, 1, on_reduced)>>),
                     hat_t_2_stated(0, 1, 2, on_reduced)))

\* C12: in each direction core_3 hands the solver the obligation: for all p,
\* q, p', q', l, C1(p) and C2(q) and E(p, q) and That(p, p', l) and
\* E(p', q') imply That_2(q, q', l), q' being universally quantified,
\* E(p', q') standing in the antecedent and That_2 built from the other
\* net's tau* and labeled step.
C12_SimulatedFormula ==
    CalledFn("core_3") => (cpc # "raised" /\ csent = <<Simulated_stated(cfun[2])>>)


\* ==================================================== properties of SpecZ3
\* what one check_sat(f) writes
Triple(f) == <<Cmd("reset", ""), Cmd("assert", f), Cmd("check-sat", "")>>

RECURSIVE Stream(_)
\* the triples of a list of calls, one after the other
Stream(calls) ==
    IF calls = <<>> THEN <<>> ELSE Triple(Head(calls)) \o Stream(Tail(calls))

IsPrefix(a, b) == Len(a) <= Len(b) /\ SubSeq(b, 1, Len(a)) = a

\* the check_sat calls that returned
ReturnedCalls == {zret[i].call : i \in DOMAIN zret} \ {0}

\* C13: every check_sat(f) writes `(reset)`, `(assert f)`, `(check-sat)` in
\* this order with nothing in between, flushes, then reads exactly one
\* line; it returns True exactly on `sat` and False exactly on `unsat`; the
\* stream written over a sequence of calls is the concatenation of the
\* triples.
C13_CheckSatProtocol ==
    /\ IsPrefix(solver.stdin, Stream(zcalls))
    /\ zcalls # <<>> => IsPrefix(Stream(SubSeq(zcalls, 1, Len(zcalls) - 1)), solver.stdin)
    /\ zpc \in {"flush", "readline", "main"} => solver.stdin = Stream(zcalls)
    /\ (zpc = "readline" /\ solver.alive) => solver.flushed = Len(solver.stdin)
    /\ zpc = "main" =>
          /\ solver.flushed = Len(solver.stdin)
          /\ Len(solver.lines) = Len(zcalls)
          /\ ReturnedCalls = 1..Len(zcalls)
    /\ zpc = "readline" => Len(solver.lines) = Len(zcalls) - 1
    /\ \A i \in DOMAIN zret :
          zret[i].call > 0 =>
              /\ zret[i].value <=> solver.lines[zret[i].call] = "sat"
              /\ ~zret[i].value <=> solver.lines[zret[i].call] = "unsat"

\* two calls returned, one True and one False
C13_Witness ==
    /\ zpc = "main"
    /\ Len(zcalls) = 2
    /\ \E i, j \in DOMAIN zret :
          zret[i].call = 1 /\ zret[i].value /\ zret[j].call = 2 /\ ~zret[j].value

\* a line other than `sat` / `unsat` was read, or a write or flush hit a
\* broken pipe
AbortCause ==
    \/ solver.broken
    \/ \E i \in DOMAIN solver.lines : solver.lines[i] \notin {"sat", "unsat"}

\* C14: when the line read in check_sat is neither `sat` nor `unsat` (the
\* empty line at end of stream included) or a write or flush hits a broken
\* pipe, the driver kills z3, sets aborted and ends the process; that
\* obligation gets no verdict and no later obligation is sent.
C14_AbortOnBadAnswer ==
    AbortCause =>
        /\ solver.killed
        /\ aborted
        /\ zpc = "exit"
        /\ zend = "abort"
        /\ ReturnedCalls = 1..(Len(zcalls) - 1)
        /\ IsPrefix(solver.stdin, Stream(zcalls))

\* the second call aborted on the empty line at end of stream
C14_Witness ==
    /\ zend = "abort"
    /\ Len(zcalls) = 2
    /\ Len(solver.lines) = 2
    /\ solver.lines[2] = ""

RECURSIVE Assertions(_)
\* the assertions z3 holds after a stream of commands: (reset) erases them,
\* (assert f) adds f
Assertions(stream) ==
    IF stream = <<>> THEN <<>>
    ELSE LET c == stream[Len(stream)]
             before == Assertions(SubSeq(stream, 1, Len(stream) - 1))
         IN CASE c.cmd = "reset" -> <<>>
              [] c.cmd = "assert" -> Append(before, c.f)
              [] OTHER -> before

\* what has reached z3
Delivered == SubSeq(solver.stdin, 1, solver.flushed)

\* the number of (check-sat) among the first i commands written
CheckSats(i) == Cardinality({j \in 1..i : solver.stdin[j].cmd = "check-sat"})

\* at every (check-sat) z3 holds exactly the formula of the current call
OneAssertionAtCheckSat ==
    \A i \in 1..solver.flushed :
        solver.stdin[i].cmd = "check-sat" =>
            Assertions(SubSeq(solver.stdin, 1, i)) = <<zcalls[CheckSats(i)]>>

\* C15 (as stated): at every `(check-sat)` z3 holds exactly one assertion,
\* the formula of the current call, and between two check_sat calls the
\* solver state is empty.
C15_EmptyBetweenCalls ==
    /\ OneAssertionAtCheckSat
    /\ zpc = "main" => Assertions(Delivered) = <<>>

\* C15 (amended): at every `(check-sat)` z3 holds exactly one assertion, the
\* formula of the current call; after a call has returned and until the
\* `(reset)` of the next one z3 still holds that formula; it is empty only
\* before the first call.
C15_OneAssertionKeptUntilReset ==
    /\ OneAssertionAtCheckSat
    /\ zpc = "main" =>
          Assertions(Delivered) = IF zcalls = <<>> THEN <<>> ELSE <<zcalls[Len(zcalls)]>>

\* two calls with different formulas have returned
C15_Witness ==
    /\ zpc = "main"
    /\ Len(zcalls) = 2
    /\ zcalls[1] # zcalls[2]
    /\ ReturnedCalls = {1, 2}

\* C16: one z3 process is created per run, every obligation goes to it, and
\* the tool kills it on every way the run ends: on abort and on normal
\* completion after the last verdict.
C16_SolverKilledAtEnd ==
    /\ solver.spawned <= 1
    /\ zpc # "start" => solver.spawned = 1
    /\ zend \in {"abort", "return"} => solver.killed


\* ================================================== properties of SpecFast
\* an OK-line of fast's output names an id that is no transition of the net
NamesAbsentTransition ==
    \E i \in DOMAIN fout :
        fout[i].ok /\ \E k \in DOMAIN fout[i].expr :
                          \E j \in DOMAIN fout[i].expr[k] : fout[i].expr[k][j] \notin transitions

\* the two lines were found in the xsltproc output
MarkersFound == var_index # NoIndex /\ region_index # NoIndex

\* C17: on a net with a silent transition the stages run in the order ndrio,
\* xsltproc, fast; a stage is started only after the one before exited with
\* code 0 (fast only after both the variable line and the `Region init` line
\* were found); a non-zero exit, a missing marker or an OK-line naming an
\* absent transition ends the tool with a failure and no list is returned.
C17_StagesInOrder ==
    silent_transitions # <<>> =>
        /\ IsPrefix(fspawned, <<"ndrio", "xsltproc", "fast">>)
        /\ \A i \in DOMAIN fspawned : i > 1 => fexit[fspawned[i - 1]] = 0
        /\ "fast" \in Range(fspawned) => MarkersFound
        /\ ( \/ \E st \in Stages : fexit[st] \notin {NoIndex, 0}
             \/ fexit["xsltproc"] = 0 /\ ~MarkersFound
             \/ fexit["fast"] = 0 /\ NamesAbsentTransition )
           => (fend = "failure" /\ fpc = "exit" /\ fsequences = <<>> /\ cpc = "off")

\* all three stages ran and the output named a transition the net lacks
C17_Witness ==
    /\ fspawned = <<"ndrio", "xsltproc", "fast">>
    /\ fexit["fast"] = 0
    /\ NamesAbsentTransition
    /\ fend = "failure"

\* C18: on a net without silent transitions tau_star returns the empty list
\* with no subprocess started, no temporary file written and the environment
\* untouched, and check_silent_reachability_set on the empty list reports
\* the obligation as satisfied with nothing sent to the solver.
C18_NoSilentNoWork ==
    /\ (silent_transitions = <<>> /\ fpc # "call") =>
          /\ fpc = "returned"
          /\ fsequences = <<>>
          /\ fspawned = <<>>
          /\ ftemp = 0
          /\ ~fenv
    /\ (fpc = "returned" /\ fsequences = <<>> /\ cpc # "idle") =>
          /\ cpc = "returned"
          /\ cverdict = <<TRUE>>
          /\ csent = <<>>

\* the conformance obligation was run on the empty list of a net without
\* silent transitions
C18_Witness ==
    /\ silent_transitions = <<>>
    /\ labeled_transitions # <<>>
    /\ fpc = "returned"
    /\ cpc = "returned"

\* the OK-lines of an output, in order
RECURSIVE OkLines(_)
OkLines(lines) ==
    IF lines = <<>> THEN <<>>
    ELSE IF Head(lines).ok THEN <<Head(lines)>> \o OkLines(Tail(lines))
    ELSE OkLines(Tail(lines))

\* the summands of the first n OK-lines, each with the rank (from 0) of its
\* line among the OK-lines
RECURSIVE SummandsOf(_, _)
SummandsOf(oks, n) ==
    IF n = 0 THEN <<>>
    ELSE SummandsOf(oks, n - 1)
         \o [k \in DOMAIN oks[n].expr |-> [line |-> n - 1, summand |-> oks[n].expr[k]]]

\* C19: tau_star returns one Sequence per summand of every `OK !` line, in
\* output order with the transitions of a summand in written order; the
\* summands of one OK-line carry the same saturation variable, those of
\* different OK-lines different ones, and a line without the marker yields
\* no sequence and uses up no name.
C19_OneSequencePerSummand ==
    (fpc = "returned" /\ silent_transitions # <<>>) =>
        LET expected == SummandsOf(OkLines(fout), Len(OkLines(fout)))
        IN /\ Len(fsequences) = Len(expected)
           /\ \A i \in DOMAIN expected :
                 /\ fsequences[i].sequence = expected[i].summand
                 /\ fsequences[i].saturation_variable = <<"tau", expected[i].line>>
           /\ \A i, j \in DOMAIN expected :
                 fsequences[i].saturation_variable = fsequences[j].saturation_variable
                     <=> expected[i].line = expected[j].line

\* a line without the marker, then an OK-line of two summands
C19_Witness ==
    /\ fpc = "returned"
    /\ Len(fout) = 2
    /\ ~fout[1].ok
    /\ fout[2].ok
    /\ Len(fout[2].expr) = 2
    /\ Len(fsequences) = 2


\* ================================================ properties of SpecParser
RECURSIVE Grammatical(_, _, _)
\* operands and binary operators alternate, parentheses are balanced and
\* each encloses such a text; expect is what may come next
Grammatical(tokens, expect, depth) ==
    IF tokens = <<>> THEN expect = "operator" /\ depth = 0
    ELSE LET t == Head(tokens)
         IN CASE t \in AtomTokens ->
                    expect = "operand" /\ Grammatical(Tail(tokens), "operator", depth)
              [] t = "(" ->
                    expect = "operand" /\ Grammatical(Tail(tokens), "operand", depth + 1)
              [] t = ")" ->
                    /\ expect = "operator"
                    /\ depth > 0
                    /\ Grammatical(Tail(tokens), "operator", depth - 1)
              [] t \in {"and", "or"} ->
                    expect = "operator" /\ Grammatical(Tail(tokens), "operand", depth)
              [] OTHER -> FALSE

\* the atoms of a token list, in order
AtomsOfTokens(tokens) == SelectSeq(tokens, LAMBDA t : t \in AtomTokens)

RECURSIVE AtomsOfTree(_)
RECURSIVE AtomsOfTrees(_)
\* the atoms at the leaves of a tree, left to right
AtomsOfTree(tree) ==
    IF tree.operator = "atom" THEN <<tree.name>> ELSE AtomsOfTrees(tree.operands)

AtomsOfTrees(trees) ==
    IF trees = <<>> THEN <<>> ELSE AtomsOfTree(Head(trees)) \o AtomsOfTrees(Tail(trees))

\* the tree of the statement: on a change of operator the operands read so
\* far are grouped and become the first operand of a formula of the new
\* operator
Stated_tree(tokens) == parse_end(parse_tokens(parse_start, tokens, TRUE))

\* C20: for every constraint with balanced parentheses parse_formula keeps
\* every operand: operators of one kind at one level are joined left to
\* right into one StateFormula; when the operator changes at a level the
\* operands read so far are grouped into a sub-formula that is the first
\* operand of a formula of the new operator (`A /\ B \/ C` gives
\* or(and(A, B), C)); no atom of the input is missing from the tree.
C20_KeepsEveryOperand ==
    (F # <<>> /\ Grammatical(formula, "operand", 0)) =>
        /\ ~F[1].raised
        /\ F[1] = Stated_tree(formula)
        /\ AtomsOfTree(F[1].F) = AtomsOfTokens(formula)
        /\ formula = <<"A", "and", "B", "or", "C">> =>
              F[1].F = StateFormula(<<StateFormula(<<AtomNode("A"), AtomNode("B")>>, "and"),
                                      AtomNode("C")>>, "or")

\* without a change of operator outside parentheses every operand is kept
KeepsEveryOperand_OneOperator ==
    (F # <<>> /\ Grammatical(formula, "operand", 0)
       /\ \A i \in DOMAIN formula : formula[i] # "or") =>
        /\ ~F[1].raised
        /\ F[1] = Stated_tree(formula)
        /\ AtomsOfTree(F[1].F) = AtomsOfTokens(formula)


\* ---------------------------------------------------------------- C21
\* the labels that are the keyword `tau` or denote a positive integer
Stated_label(lab) == lab = "tau" \/ (isdigit(lab) /\ label_int(lab) > 0)

\* how often id occurs in a list of transitions
Occurrences(list, id) == Cardinality({i \in 1..Len(list) : list[i] = id})

\* C21: every transition that parse_transition added to the net carries a
\* label that is `tau` or denotes a positive integer (a digit string of value
\* zero never gets in), no transition is added by the line that meets the
\* fatal error, and every transition of the net stands exactly once in
\* exactly one of the silent and labeled lists.
C21_OnlyStatedLabelsAccepted ==
    /\ \A t \in transitions : Stated_label(label[t])
    /\ \A t \in transitions :
          Occurrences(silent_transitions, t) + Occurrences(labeled_transitions, t) = 1
    /\ \A t \in TransIds \ transitions :
          Occurrences(silent_transitions, t) + Occurrences(labeled_transitions, t) = 0

\* ---------------------------------------------------------------- C23
\* the rendered sequence is the single transition that takes 2 tokens from a
\* and puts 1 token in b
OneTransition_2a_1b ==
    /\ pc = "sigma"
    /\ Len(sequence) = 1
    /\ pre[sequence[1]] = [p \in {"a"} |-> 2]
    /\ post[sequence[1]] = [p \in {"b"} |-> 1]

\* C23 (as stated): for the single transition that consumes 2 tokens from a
\* and produces 1 token in b, H[a] = 2 and Delta[a] = -1, and the encoding for
\* s >= 1 firings requires a@k >= 2 + (s-1)*1.
C23_HurdleTwoDeltaMinusOne ==
    OneTransition_2a_1b =>
        /\ hurdle["a"] = 2
        /\ sdelta["a"] = 0 - 1
        /\ smt.hurdle_k["a"] = [base |-> 2, scaled |-> TRUE, mult |-> 1]

\* C23 (amended): for the single transition that consumes 2 tokens from a and
\* produces 1 token in b, H[a] = 2 and Delta[a] = -2, and the encoding for
\* s >= 1 firings requires a@k >= 2 + (s-1)*2, which is 2*s, the tokens that
\* s firings take from a.
C23_HurdleTwoDeltaMinusTwo ==
    OneTransition_2a_1b =>
        /\ hurdle["a"] = 2
        /\ sdelta["a"] = 0 - 2
        /\ smt.hurdle_k["a"] = [base |-> 2, scaled |-> TRUE, mult |-> 2]
        /\ \A s \in 1..MaxFirings : \A m \in Markings :
              HurdleSat(smt, m, s) <=> m["a"] >= 2 + (s - 1) * 2

C23_Witness == OneTransition_2a_1b

\* ======================================================= properties of SpecMain

\* the verdict lines are those of the first obligations, one each, in order
InOrder == \A i \in 1..Len(mout) : mout[i].ob = i

\* C22: a run of main that meets no fatal error (no failure of the
\* accelerator driver, no solver abort) prints one verdict line for each of
\* the twelve obligations, in the order conformance N1, conformance N2,
\* CORE 1..5 with N1 initial, CORE 1..5 with the roles swapped, whatever the
\* sat/unsat answers, and ends normally.
C22_AllObligationsInOrder ==
    /\ InOrder
    /\ (mpc = "ended" /\ mend \notin {"fatal", "abort"}) =>
          /\ mend = "return"
          /\ Len(mout) = Len(Obligations)

\* ---------------------------------------------------------------- C24
\* the time indices the composer renders a constraint at (NoIndex: none)
RenderIndices == {NoIndex, 0, 1, 2}

\* the call c.smtlib_declare(k) as the composer writes it: without
\* argument for no index (core_1), with the index otherwise
Declare(c, k) == Presburger_smtlib_declare(c, IF k = NoIndex THEN 0 ELSE 1)

\* the place variables that occur in c.smtlib(k)
PlaceVariables(c, k) == {Var(c.places[i], k) : i \in 1..Len(c.places)}

\* C24: for every Presburger formula handed to the composer and every time
\* index k, declare(k) returns (it does not raise) and the names it returns
\* include p@k for every place p of the formula, so that every place variable
\* of render(k) is bound by a quantifier over declare(k).
C24_DeclareNamesEveryPlace ==
    cfun # <<>> =>
        \A on_reduced \in BOOLEAN : \A k \in RenderIndices :
            LET c == Side1(on_reduced)
                d == Declare(c, k)
            IN /\ ~d.raised
               /\ PlaceVariables(c, k) \subseteq Range(d.vars)

\* ---------------------------------------------------------------- C25
\* the index smt_hat_t(k, k_prime) binds with its existential
hat_t_intermediate(k, k_prime) == k_intermediate_from(k, k, k_prime)

\* the two calls of smt_hat_t in core_2 with the indices bound around them:
\* (k, k_prime) under `forall` over 0 and 1, and (k, k_hiatus) under that
\* `forall` and the `exists` over the hiatus marking 2
Core_2_hat_t_calls ==
    {[k |-> 0, k_prime |-> 1, enclosing |-> {0, 1}],
     [k |-> 0, k_prime |-> 2, enclosing |-> {0, 1, 2}]}

\* C25: in the obligation core_2 builds, the existential of each smt_hat_t
\* binds an intermediate index that differs from the k and k' it is called
\* with and from every index bound by a quantifier around it; for the call
\* under the existential over the hiatus marking these are the outer indices
\* 0 and 1 and the hiatus index.
C25_IntermediateIndexFresh ==
    CalledFn("core_2") =>
        \A call \in Core_2_hat_t_calls :
            /\ hat_t_intermediate(call.k, call.k_prime) \notin {call.k, call.k_prime}
            /\ hat_t_intermediate(call.k, call.k_prime) \notin call.enclosing

\* ---------------------------------------------------------------- C26
\* every quantifier of the formula f has a non-empty variable list and the
\* shape `forall V. (all v >= 0) => body` or `exists V. (all v >= 0) and body`
RECURSIVE RestrictedQuantifiers(_)
RestrictedQuantifiers(f) ==
    /\ f.op \in {"forall", "exists"} =>
          /\ f.vars # <<>>
          /\ Len(f.args) = 1
          /\ f.args[1].op = (IF f.op = "forall" THEN "=>" ELSE "and")
          /\ Len(f.args[1].args) = 2
          /\ f.args[1].args[1] = Node(">=0", <<>>, f.vars, <<>>)
    /\ \A i \in 1..Len(f.args) : RestrictedQuantifiers(f.args[i])

\* the sequence renderings check_silent_reachability_set builds (its f6)
\* in the call made
Built_f6 ==
    IF CalledFn("check_silent_reachability_set")
    THEN [i \in 1..Side1(cfun[2]).tau |-> Sequence_atom(i - 1, i - 1)]
    ELSE <<>>

\* C26: every quantifier of a formula handed to the solver, and every
\* quantifier over a saturation variable written by Sequence.smtlib, binds a
\* non-empty list V and restricts each variable of V to non-negative values
\* (forall V. (all v >= 0) => body, exists V. (all v >= 0) and body);
\* smt_forall and smt_exists over an empty list return the body unchanged.
C26_QuantifiersNonNegative ==
    /\ \A i \in 1..Len(csent) :
          /\ RestrictedQuantifiers(csent[i])
          /\ smt_forall(<<>>, csent[i]) = csent[i]
          /\ smt_exists(<<>>, csent[i]) = csent[i]
          /\ smt_forall(<<Var("l", NoIndex)>>, csent[i]) =
                Node("forall", <<>>, <<Var("l", NoIndex)>>,
                     <<smt_imply(Node(">=0", <<>>, <<Var("l", NoIndex)>>, <<>>), csent[i])>>)
    /\ \A i \in 1..Len(Built_f6) : RestrictedQuantifiers(Built_f6[i])

\* a formula with a `forall` around an `exists` was handed to the solver
C26_Witness ==
    /\ CalledFn("core_5")
    /\ csent # <<>>
    /\ csent[1].op = "forall"
    /\ csent[1].args[1].args[2].args[2].op = "exists"

\* ---------------------------------------------------------------- C27
RECURSIVE UnaryNot(_)
\* every StateFormula of the tree whose operator is `not` has one operand
UnaryNot(tree) ==
    /\ tree.operator = "not" => Len(tree.operands) = 1
    /\ \A i \in 1..Len(tree.operands) : UnaryNot(tree.operands[i])

\* C27: in every expression tree parse_formula produces from a constraint
\* text, each StateFormula whose operator is `not` has exactly one operand,
\* whatever the arrangement of `-`, `/\`, `\/` and parentheses (several `-`
\* at one parenthesis level included).
C27_NotHasOneOperand ==
    (F # <<>> /\ ~F[1].raised) => UnaryNot(F[1].F)

\* ---------------------------------------------------------------- C28
\* C28: the driver's assignment of FAST_DEFAULT_ENGINE is undone when the
\* driver ends: once tau_star has returned or failed, the variable has the
\* value (or absence) it had before the call.
C28_EnvironmentRestored == fend # "" => ~fenv

\* ===================================================== properties of SpecMember

Assignments == [MemberNames -> 0..MaxValue]

RECURSIVE SumOf(_, _)
\* the value of a list of summands [name, factor] under an assignment; the
\* summand of a literal has no name and counts its factor
SumOf(summands, a) ==
    IF summands = <<>> THEN 0
    ELSE (IF Head(summands).name = "" THEN Head(summands).factor
          ELSE Head(summands).factor * a[Head(summands).name])
         + SumOf(Tail(summands), a)

\* the summands of the term as written
Written(elements) ==
    [i \in 1..Len(elements) |->
        IF elements[i].literal THEN [name |-> "", factor |-> elements[i].n]
        ELSE [name |-> elements[i].name,
              factor |-> IF elements[i].n = 0 THEN 1 ELSE elements[i].n]]

\* C29: for every linear term, the term built by _member_constructor and
\* rendered by smtlib evaluates, under every assignment of the variables,
\* to the same integer as the written term: no literal summand is dropped
\* and repeated occurrences of a variable keep their own multipliers.
C29_TermKeepsItsValue ==
    term # <<>> =>
        \A a \in Assignments :
            SumOf(Expression_smtlib(term[1].expression), a) = SumOf(Written(member), a)

\* terms of literals only, and terms of names that occur once, keep their
\* value
TermKeepsItsValue_Simple ==
    (term # <<>>
       /\ \/ \A i \in 1..Len(member) : member[i].literal
          \/ /\ \A i \in 1..Len(member) : ~member[i].literal
             /\ \A i, j \in 1..Len(member) : i # j => member[i].name # member[j].name) =>
        \A a \in Assignments :
            SumOf(Expression_smtlib(term[1].expression), a) = SumOf(Written(member), a)

\* ---------------------------------------------------------------- C30
\* C30: the solver subprocess is created only after tau_star has returned
\* for both nets; a run that the accelerator driver ends with a fatal
\* failure, for either net, has started no solver subprocess, so none is
\* left running.
C30_SolverAfterAccelerator ==
    /\ mpc \in {"tau1", "tau2"} => solver.spawned = 0
    /\ mend = "fatal" => (solver.spawned = 0 /\ ~solver.alive)
    /\ solver.spawned > 0 => mpc \in {"obligation", "ended"}

\* the driver failed for the second net after it returned for the first
C30_Witness == mend = "fatal" /\ mpc = "ended" /\ solver.spawned = 0
====
